---- MODULE Spec2Model ----
(***************************************************************************)
(* Speech-transcript grade sheet (src/src/App.tsx): transcript             *)
(* normalisation, numeral parsing, roster parsing and matching, pair       *)
(* extraction, the remote oracle's validation and the save-merge into the  *)
(* entry registry.                                                         *)
(*                                                                         *)
(* Text is a sequence of characters.  A character is written as a short    *)
(* ASCII token: an ASCII character stands for itself, a CJK character is   *)
(* its pinyin ("zhang" is U+5F20), a full-width punctuation mark is        *)
(* "fw_<name>".  A JavaScript value that may be null is a sequence of      *)
(* length 0 (null) or 1.                                                   *)
(***************************************************************************)
EXTENDS Integers, Sequences, FiniteSets, TLC

(***************************************************************************)
(* Characters and character classes                                        *)
(***************************************************************************)

\* [0-9] and \d
AsciiDigit == {"0", "1", "2", "3", "4", "5", "6", "7", "8", "9"}

\* [零〇一二两三四五六七八九十百] of the score token; "ling_o" is U+3007
ChineseNumeral ==
    {"ling", "ling_o", "yi", "er", "liang", "san", "si", "wu", "liu", "qi",
     "ba", "jiu", "shi", "bai"}

\* the copula (?:得|是|为)
Copula == {"de", "shi4", "wei"}

\* the characters of the model inside [一-龥]; U+3007 is outside
CJK ==
    (ChineseNumeral \ {"ling_o"}) \cup Copula \cup
    {"zhang", "li", "wang", "zhao", "he", "zhi",
     "jin", "tian", "yu", "wen", "zuo", "ye", "tong", "xue", "xue_t", "fen",
     "shu", "cheng", "ji", "ji_t", "le", "xing", "ming", "zi", "hao", "hao_t"}

\* \s
Whitespace == {" ", "tab", "nl", "cr"}

None == << >>

Some(x) == <<x>>

Min(a, b) == IF a < b THEN a ELSE b

Max(a, b) == IF a > b THEN a ELSE b

(***************************************************************************)
(* String helpers (the JavaScript built-ins the code calls)                *)
(***************************************************************************)

\* s.slice(i - 1): the suffix of s from position i (1-based)
From(s, i) == SubSeq(s, i, Len(s))

\* whether w occurs in s at position i
OccursAt(s, w, i) ==
    /\ i + Len(w) - 1 <= Len(s)
    /\ SubSeq(s, i, i + Len(w) - 1) = w

\* the x-th smallest member of a set of positions
KeptAt(kept, x) == CHOOSE p \in kept : Cardinality({q \in kept : q <= p}) = x

\* the single members of a sequence of one-element sequences
Heads(pieces) == [x \in 1..Len(pieces) |-> pieces[x][1]]

\* pieces.join('') for pieces of at most one character each (and
\* .filter(Boolean) for a list of nullable values)
Squeeze(pieces) == Heads(SelectSeq(pieces, LAMBDA piece : piece # << >>))

\* the positions at which w occurs in s
Occurrences(s, w) == {p \in 1..Len(s) : OccursAt(s, w, p)}

\* the occurrences that split() cuts at: leftmost first, no overlap, so an
\* occurrence is cut at exactly when no cut to its left reaches into it
CutsOf(occ, len) ==
    CHOOSE cuts \in SUBSET occ :
        \A p \in occ : p \in cuts <=> ~\E q \in cuts : q < p /\ p < q + len

\* what position p of s contributes to s.split(w).join(r)
SplitJoinPiece(s, cuts, len, r, p) ==
    IF p \in cuts THEN r
    ELSE IF \E q \in cuts : q < p /\ p < q + len THEN << >>
    ELSE <<s[p]>>

SplitJoinAt(s, cuts, len, r) ==
    Squeeze([p \in 1..Len(s) |-> SplitJoinPiece(s, cuts, len, r, p)])

\* s.split(w).join(r), w non-empty and r of at most one character
SplitJoin(s, w, r) == SplitJoinAt(s, CutsOf(Occurrences(s, w), Len(w)), Len(w), r)

\* s.replace(/[^c]/g, '') for a class c: the characters of s inside keep
Filter(s, keep) ==
    Squeeze([p \in 1..Len(s) |-> IF s[p] \in keep THEN <<s[p]>> ELSE << >>])

\* s.replace(/[c]/g, ' ') for a class c
MapToSpace(s, class) == [i \in 1..Len(s) |-> IF s[i] \in class THEN " " ELSE s[i]]

\* the number of characters of s from position i on that lie in class, at most max
RunLen(s, i, class, max) ==
    LET lim == Min(max, Len(s) - i + 1)
    IN  IF lim <= 0 THEN 0
        ELSE CHOOSE n \in 0..lim :
                /\ \A k \in 0..(n - 1) : s[i + k] \in class
                /\ n = lim \/ s[i + n] \notin class

\* the largest member of a non-empty set of numbers
Largest(S) == CHOOSE n \in S : \A m \in S : m <= n

Smallest(S) == CHOOSE n \in S : \A m \in S : n <= m

TrimStart(s) == From(s, RunLen(s, 1, Whitespace, Len(s)) + 1)

TrimEnd(s) ==
    IF \A n \in 1..Len(s) : s[n] \in Whitespace THEN << >>
    ELSE SubSeq(s, 1, Largest({n \in 1..Len(s) : s[n] \notin Whitespace}))

\* s.trim()
Trim(s) == TrimEnd(TrimStart(s))

\* s.replace(/\s+/g, ' ')
CollapseWhitespace(s) ==
    IF s = << >> THEN s
    ELSE Squeeze([p \in 1..Len(s) |->
                IF s[p] \notin Whitespace THEN <<s[p]>>
                ELSE IF p > 1 /\ s[p - 1] \in Whitespace THEN << >>
                ELSE <<" ">>])

(***************************************************************************)
(* normalizeTranscript                                                     *)
(***************************************************************************)

\* the noise list, in the order of the source
noise ==
    << <<"jin", "tian">>, <<"yu", "wen">>, <<"zuo", "ye">>, <<"tong", "xue">>,
       <<"tong", "xue_t">>, <<"fen", "shu">>, <<"cheng", "ji">>,
       <<"cheng", "ji_t">>, <<"de", "le">>, <<"de">>, <<"shi4">>, <<"wei">>,
       <<"fen">>, <<"fw_comma">>, <<",">>, <<"fw_period">>, <<".">>,
       <<"fw_dun">>, <<"fw_colon">>, <<":">>, <<"fw_semi">>, <<";">>,
       <<"fw_lparen">>, <<"(">>, <<"fw_rparen">>, <<")">>, <<"fw_lbrack">>,
       <<"[">>, <<"fw_rbrack">>, <<"]">>, <<"fw_lquote">>, <<"dquote">>,
       <<"fw_rquote">>, <<"dquote">>, <<"fw_qmark">>, <<"?">>, <<"fw_bang">>,
       <<"!">> >>

\* the iterations from the k-th on whose word occurs in out
NoiseIn(out, k) ==
    {x \in k..Len(noise) :
        \E p \in 1..Len(out) : out[p] = noise[x][1] /\ OccursAt(out, noise[x], p)}

\* for (const w of noise) out = out.split(w).join(' '), from the k-th word on.
\* An iteration whose word does not occur leaves out as it is, so the loop moves
\* on to the next word that occurs.
RECURSIVE RemoveNoise(_, _)
RemoveNoiseAt(out, x) == RemoveNoise(SplitJoin(out, noise[x], <<" ">>), x + 1)

RemoveNoiseIn(out, words) ==
    IF words = {} THEN out ELSE RemoveNoiseAt(out, Smallest(words))

RemoveNoise(out, k) == RemoveNoiseIn(out, NoiseIn(out, k))

\* mutant: the whitespace left at the ends is kept
normalizeTranscript_NoTrim(text) == CollapseWhitespace(RemoveNoise(text, 1))

normalizeTranscript(text) == Trim(CollapseWhitespace(RemoveNoise(text, 1)))

(***************************************************************************)
(* chineseToNumber, clampScore                                             *)
(***************************************************************************)

DigitValue ==
    ("0" :> 0) @@ ("1" :> 1) @@ ("2" :> 2) @@ ("3" :> 3) @@ ("4" :> 4) @@
    ("5" :> 5) @@ ("6" :> 6) @@ ("7" :> 7) @@ ("8" :> 8) @@ ("9" :> 9)

\* Number.parseInt(s, 10) of a string of ASCII digits
RECURSIVE ParseInt(_)
ParseInt(s) ==
    IF s = << >> THEN 0
    ELSE ParseInt(SubSeq(s, 1, Len(s) - 1)) * 10 + DigitValue[s[Len(s)]]

\* the table `digit` of chineseToNumber
digit ==
    ("ling" :> 0) @@ ("ling_o" :> 0) @@ ("yi" :> 1) @@ ("er" :> 2) @@
    ("liang" :> 2) @@ ("san" :> 3) @@ ("si" :> 4) @@ ("wu" :> 5) @@
    ("liu" :> 6) @@ ("qi" :> 7) @@ ("ba" :> 8) @@ ("jiu" :> 9)

\* flushUnit(unit) on the loop state st = [total, current, seenAny]
flushUnit(st, unit) ==
    IF ~st.seenAny THEN st
    ELSE LET cur == IF st.current = 0 THEN 1 ELSE st.current
         IN  [st EXCEPT !.total = st.total + cur * unit, !.current = 0]

\* one iteration of `for (const ch of chars)`
ChineseStep(st, ch) ==
    IF ch \in DOMAIN digit
    THEN [st EXCEPT !.current = digit[ch], !.seenAny = TRUE]
    ELSE IF ch = "bai" THEN flushUnit([st EXCEPT !.seenAny = TRUE], 100)
    ELSE IF ch = "shi" THEN flushUnit([st EXCEPT !.seenAny = TRUE], 10)
    ELSE st

RECURSIVE ChineseLoop(_, _)
ChineseLoop(st, chars) ==
    IF chars = << >> THEN st
    ELSE ChineseLoop(ChineseStep(st, chars[1]), Tail(chars))

\* `if (!seenAny) return null; total += current; return total`
ChineseResult(st) == IF ~st.seenAny THEN None ELSE Some(st.total + st.current)

\* chineseToNumber after `const s = raw.replace(/分/g, '').trim()`
NumberOfToken(s) ==
    IF s = << >> THEN None
    ELSE IF Len(s) <= 3 /\ \A i \in 1..Len(s) : s[i] \in AsciiDigit
         THEN Some(ParseInt(s))
    ELSE ChineseResult(ChineseLoop([total |-> 0, current |-> 0, seenAny |-> FALSE], s))

\* chineseToNumber(raw): None is null
chineseToNumber(raw) == NumberOfToken(Trim(SplitJoin(raw, <<"fen">>, << >>)))

\* mutant: no upper clamp
clampScore_NoUpper(n) == IF n < 0 THEN Some(0) ELSE Some(n)

\* clampScore(n) for an integer n (its callers never pass NaN: chineseToNumber
\* returns null or an integer, the oracle path tests Number.isFinite first)
clampScore(n) ==
    IF n < 0 THEN Some(0)
    ELSE IF n > 100 THEN Some(100)
    ELSE Some(n)

(***************************************************************************)
(* normalizeStudentId, normalizeStudentName                                *)
(***************************************************************************)

normalizeStudentId(raw) == Trim(Filter(raw, AsciiDigit))

\* .replace(/^\d+\s*/g, ''): strip a leading index
StripLeadingIndex(s) ==
    LET n == RunLen(s, 1, AsciiDigit, Len(s))
    IN  IF n = 0 THEN s
        ELSE From(s, n + 1 + RunLen(s, n + 1, Whitespace, Len(s)))

\* the labels of /^(姓名|名字|学号|學號)[:：]\s*/
NameLabels ==
    {<<"xing", "ming">>, <<"ming", "zi">>, <<"xue", "hao">>, <<"xue_t", "hao_t">>}

StripLabel(s) ==
    IF /\ Len(s) >= 3
       /\ SubSeq(s, 1, 2) \in NameLabels
       /\ s[3] \in {":", "fw_colon"}
    THEN From(s, 4 + RunLen(s, 4, Whitespace, Len(s)))
    ELSE s

\* .replace(/(同学|同學)$/g, '')
StripHonorific(s) ==
    IF Len(s) >= 2 /\ SubSeq(s, Len(s) - 1, Len(s)) \in {<<"tong", "xue">>, <<"tong", "xue_t">>}
    THEN SubSeq(s, 1, Len(s) - 2)
    ELSE s

\* .replace(/^\d+\s*/g, '') ... .trim(): the last four steps of the chain
StripAffixes(s) ==
    IF s = << >> THEN s
    ELSE Trim(StripHonorific(StripLabel(StripLeadingIndex(s))))

\* the chain of replacements giving `cleaned`
CleanName(raw) ==
    StripAffixes(CollapseWhitespace(
        MapToSpace(Trim(raw), {"fw_comma", ",", "fw_period", ".", "tab"})))

\* mutant: the cleaned string is returned whatever it contains
PreferZh_Cleaned(onlyZh, cleaned) == Trim(cleaned)

\* `return (onlyZh || cleaned).trim()`
PreferZh(onlyZh, cleaned) == Trim(IF onlyZh # << >> THEN onlyZh ELSE cleaned)

\* const onlyZh = cleaned.replace(/[^一-龥]/g, '')
OnlyZhOr(cleaned) ==
    IF cleaned = << >> THEN cleaned
    ELSE PreferZh(Filter(cleaned, CJK), cleaned)

normalizeStudentName(raw) == OnlyZhOr(CleanName(raw))

(***************************************************************************)
(* The scan of parsePairsFromText:                                         *)
(*   /((?:\d{4,}|[一-龥]{2,8}))\s*(?:得|是|为)?\s*                          *)
(*    ([0-9]{1,3}|[零〇一二两三四五六七八九十百]{1,6})\s*(?:分)?/g           *)
(***************************************************************************)

\* \s* from position j: the position after the whitespace
SkipWhitespace(s, j) == j + RunLen(s, j, Whitespace, Len(s))

\* (?:得|是|为)? from position j
SkipCopula(s, j) == IF j <= Len(s) /\ s[j] \in Copula THEN j + 1 ELSE j

\* (?:分)? from position j
SkipUnit(s, j) == IF j <= Len(s) /\ s[j] = "fen" THEN j + 1 ELSE j

\* ([0-9]{1,3}|[零〇一二两三四五六七八九十百]{1,6}) at position j: the length
\* matched, 0 when neither alternative matches
ScoreLen(s, j) ==
    IF RunLen(s, j, AsciiDigit, 3) >= 1 THEN RunLen(s, j, AsciiDigit, 3)
    ELSE RunLen(s, j, ChineseNumeral, 6)

\* the score token of length n at position j and the trailing \s*(?:分)?
ScoreMatch(s, j, n) ==
    [ok |-> n >= 1, score |-> SubSeq(s, j, j + n - 1),
     end |-> SkipUnit(s, SkipWhitespace(s, j + n))]

ScoreAt(s, j) == ScoreMatch(s, j, ScoreLen(s, j))

\* What follows the subject, tried at position j.  Whitespace, the copula and
\* the two score classes are pairwise disjoint and nothing after the score can
\* fail, so the greedy choice of each quantifier is the only one that can
\* succeed: no backtracking happens inside this part.
TailMatch(s, j) == ScoreAt(s, SkipWhitespace(s, SkipCopula(s, SkipWhitespace(s, j))))

\* the lengths L of a \d{4,} subject at position i after which the rest matches
IdSubjectLens(s, i) ==
    {L \in 4..RunLen(s, i, AsciiDigit, Len(s)) : TailMatch(s, i + L).ok}

\* the same for a [一-龥]{2,8} subject
ZhSubjectLens(s, i) == {L \in 2..RunLen(s, i, CJK, 8) : TailMatch(s, i + L).ok}

\* The subject's alternatives are tried in order, \d{4,} then [一-龥]{2,8},
\* each greedy: the longest first, giving back one character at a time until
\* the rest matches.  0 when nothing matches at position i.
SubjectLen(s, i) ==
    IF IdSubjectLens(s, i) # {} THEN Largest(IdSubjectLens(s, i))
    ELSE IF ZhSubjectLens(s, i) # {} THEN Largest(ZhSubjectLens(s, i))
    ELSE 0

\* the match object: match[1], match[2], match[0] and the next lastIndex
MatchObject(s, i, L, t) ==
    [ok |-> TRUE, subject |-> SubSeq(s, i, i + L - 1), score |-> t.score,
     source |-> SubSeq(s, i, t.end - 1), end |-> t.end]

MatchWithSubject(s, i, L) ==
    IF L = 0 THEN [ok |-> FALSE] ELSE MatchObject(s, i, L, TailMatch(s, i + L))

\* the match starting exactly at position i
MatchAt(s, i) == MatchWithSubject(s, i, SubjectLen(s, i))

\* the positions from `from` on at which a match starts
MatchStarts(s, from) == {i \in from..Len(s) : MatchAt(s, i).ok}

\* the matches from lastIndex `from` on, given the positions at which a match
\* starts: the leftmost one, then the matches from its end on
RECURSIVE MatchesIn(_, _, _)
MatchesAfter(s, starts, m) == <<m>> \o MatchesIn(s, starts, m.end)

MatchesIn(s, starts, from) ==
    IF \A i \in starts : i < from THEN << >>
    ELSE MatchesAfter(s, starts, MatchAt(s, Smallest({i \in starts : i >= from})))

\* normalized.matchAll(re) from position `from`: leftmost first, no overlap
matchAll(s, from) == MatchesIn(s, MatchStarts(s, from), from)

(***************************************************************************)
(* Maps (JavaScript Map: insertion order, set() keeps a key's position)    *)
(***************************************************************************)

MapHas(map, key) == \E i \in 1..Len(map) : map[i].key = key

MapGet(map, key) == map[CHOOSE i \in 1..Len(map) : map[i].key = key].value

MapSet(map, key, value) ==
    IF MapHas(map, key)
    THEN [i \in 1..Len(map) |->
            IF map[i].key = key THEN [key |-> key, value |-> value] ELSE map[i]]
    ELSE Append(map, [key |-> key, value |-> value])

MapValues(map) == [i \in 1..Len(map) |-> map[i].value]

\* `id:${studentId}` and `name:${name}`
IdKey(studentId) == <<"i", "d", ":">> \o studentId

NameKey(name) == <<"n", "a", "m", "e", ":">> \o name

(***************************************************************************)
(* parsePairsFromText                                                      *)
(***************************************************************************)

\* roster.find((r) => r.studentId && r.studentId === rawStudentId)
FindById(roster, rawStudentId) ==
    {i \in 1..Len(roster) :
        roster[i].studentId # << >> /\ roster[i].studentId = rawStudentId}

\* mutant: the lookup by name only sees the entries without an id
FindByName_IdLessOnly(roster, rawName) ==
    {i \in 1..Len(roster) : roster[i].name = rawName /\ roster[i].studentId = << >>}

\* roster.find((r) => r.name === rawName)
FindByName(roster, rawName) == {i \in 1..Len(roster) : roster[i].name = rawName}

\* `matched` once find() returned the first of hits, or nothing
MatchedOr(roster, hits, raw) ==
    IF hits = {} THEN raw
    ELSE [studentId |-> roster[Smallest(hits)].studentId,
          name |-> roster[Smallest(hits)].name,
          matchType |-> "exact", confidence |-> 1]

\* the initial value of `matched`
RawMatch(rawIdOrName, rawStudentId, rawName) ==
    [studentId |-> rawStudentId,
     name |-> IF rawName # << >> THEN rawName ELSE rawIdOrName,
     matchType |-> "raw", confidence |-> 0]

\* mutant: the lookup of the variant without student ids, by name only
Resolve_NamesOnly(roster, rawStudentId, rawName, raw) ==
    IF rawName # << >> THEN MatchedOr(roster, FindByName(roster, rawName), raw)
    ELSE raw

\* if (rawStudentId) {...} else if (rawName) {...}
Resolve(roster, rawStudentId, rawName, raw) ==
    IF rawStudentId # << >> THEN MatchedOr(roster, FindById(roster, rawStudentId), raw)
    ELSE IF rawName # << >> THEN MatchedOr(roster, FindByName(roster, rawName), raw)
    ELSE raw

\* results.push({...})
PairRecord(matched, rawStudentId, rawName, score, source) ==
    [studentId |-> matched.studentId, name |-> matched.name,
     rawStudentId |-> rawStudentId, rawName |-> rawName, score |-> score,
     matchType |-> matched.matchType, confidence |-> matched.confidence,
     source |-> source]

\* the loop body from `const rawStudentId` on
PairOfSubject(roster, rawIdOrName, rawStudentId, rawName, score, source) ==
    PairRecord(
        Resolve(roster, rawStudentId, rawName,
                RawMatch(rawIdOrName, rawStudentId, rawName)),
        rawStudentId, rawName, score, source)

\* `const score = clampScore(num); if (score === null) continue`
PairOfScore(roster, rawIdOrName, score, source) ==
    IF score = None THEN None
    ELSE Some(PairOfSubject(roster, rawIdOrName, normalizeStudentId(rawIdOrName),
                            normalizeStudentName(rawIdOrName), score[1], source))

\* mutant: a number above 100 is skipped
PairOfNumber_SkipsOutOfRange(roster, rawIdOrName, num, source) ==
    IF num = None \/ num[1] > 100 THEN None
    ELSE PairOfScore(roster, rawIdOrName, clampScore(num[1]), source)

\* `const num = chineseToNumber(rawScore); if (num === null) continue`
PairOfNumber(roster, rawIdOrName, num, source) ==
    IF num = None THEN None
    ELSE PairOfScore(roster, rawIdOrName, clampScore(num[1]), source)

\* the body of `for (const match of normalized.matchAll(re))` for one match:
\* the pair pushed to results, None when the match is skipped
PairOfMatch(match, roster) ==
    PairOfNumber(roster, Trim(match.subject), chineseToNumber(Trim(match.score)),
                 match.source)

\* the list `results` after the loop over the matches
ResultsOf(matches, roster) ==
    Squeeze([p \in 1..Len(matches) |-> PairOfMatch(matches[p], roster)])

\* the key of a parsed pair
PairKey(item) ==
    IF item.studentId # << >> THEN IdKey(item.studentId) ELSE NameKey(item.name)

\* byKey.set(key, item) unless the key is there
MapSetIfAbsent(map, key, value) == IF MapHas(map, key) THEN map ELSE MapSet(map, key, value)

\* mutant: the first occurrence of a key is kept
RECURSIVE DedupeByKey_FirstWins(_, _)
DedupeByKey_FirstWins(results, n) ==
    IF n = 0 THEN << >>
    ELSE MapSetIfAbsent(DedupeByKey_FirstWins(results, n - 1),
                        PairKey(results[n]), results[n])

\* for (const item of results) byKey.set(key, item): byKey after the first n
\* items
RECURSIVE DedupeByKey(_, _)
DedupeByKey(results, n) ==
    IF n = 0 THEN << >>
    ELSE MapSet(DedupeByKey(results, n - 1), PairKey(results[n]), results[n])

\* `return Array.from(byKey.values())`
PairsOfResults(results) ==
    IF results = << >> THEN << >>
    ELSE MapValues(DedupeByKey(results, Len(results)))

PairsOfMatches(matches, roster) ==
    IF matches = << >> THEN << >>
    ELSE PairsOfResults(ResultsOf(matches, roster))

\* parsePairsFromText after `const normalized = normalizeTranscript(text)`
PairsOfNormalized(normalized, roster) ==
    IF normalized = << >> THEN << >>
    ELSE PairsOfMatches(matchAll(normalized, 1), roster)

parsePairsFromText(text, roster) == PairsOfNormalized(normalizeTranscript(text), roster)

(***************************************************************************)
(* parseRosterLine, normalizeRoster                                        *)
(***************************************************************************)

\* the positions at which a maximal run of s outside sep starts
RunStarts(s, sep) ==
    {p \in 1..Len(s) : s[p] \notin sep /\ (p = 1 \/ s[p - 1] \in sep)}

\* the run outside sep that starts at position p
RunFrom(s, sep, p) ==
    SubSeq(s, p, p + RunLen(s, p, {s[q] : q \in 1..Len(s)} \ sep, Len(s)) - 1)

SplitRuns(s, sep, starts) ==
    [x \in 1..Cardinality(starts) |-> RunFrom(s, sep, KeptAt(starts, x))]

\* s.split(/[sep]+/g).filter(Boolean): the maximal runs of s outside sep
SplitOn(s, sep) == SplitRuns(s, sep, RunStarts(s, sep))

\* /[一-龥]{2,8}/.test(s): s holds two CJK characters in a row
HasCjkRun(s) == \E i \in 1..(Len(s) - 1) : s[i] \in CJK /\ s[i + 1] \in CJK

\* the run of digits starting at position i
DigitRunAt(s, i) == SubSeq(s, i, i + RunLen(s, i, AsciiDigit, Len(s)) - 1)

\* s.match(/\d{4,}/)?.[0]: the leftmost run of four or more digits, << >>
\* without one
FirstLongDigitRun(s) ==
    IF \A i \in 1..Len(s) : RunLen(s, i, AsciiDigit, 4) < 4 THEN << >>
    ELSE DigitRunAt(s, Smallest({i \in 1..Len(s) : RunLen(s, i, AsciiDigit, 4) = 4}))

\* the two `if`s of the token loop on acc = [id, name]
TokenStep(acc, maybeId, maybeName) ==
    [id   |-> IF acc.id = << >> /\ maybeId # << >> /\ Len(maybeId) >= 4
              THEN maybeId ELSE acc.id,
     name |-> IF acc.name = << >> /\ maybeName # << >> /\ HasCjkRun(maybeName)
              THEN maybeName ELSE acc.name]

\* `for (const t of tokens)`: [id, name] after the first n tokens
RECURSIVE RosterTokens(_, _)
RosterTokens(tokens, n) ==
    IF n = 0 THEN [id |-> << >>, name |-> << >>]
    ELSE TokenStep(RosterTokens(tokens, n - 1),
                   normalizeStudentId(tokens[n]), normalizeStudentName(tokens[n]))

\* [id, name] after the token loop
TokensOf(tokens) == RosterTokens(tokens, Len(tokens))

\* if (!name) { const n = normalizeStudentName(s); if (n && test(n)) name = n }
NameFallback(name, n) ==
    IF name # << >> THEN name
    ELSE IF n # << >> /\ HasCjkRun(n) THEN n ELSE << >>

\* if (!id) { const m = s.match(/\d{4,}/); if (m) id = normalizeStudentId(m[0]) }
IdFallback(id, m) == IF id # << >> THEN id ELSE normalizeStudentId(m)

\* `if (!name) return null; return { studentId: id, name }`
RosterItemOrNull(id, name) ==
    IF name = << >> THEN None ELSE Some([studentId |-> id, name |-> name])

LineFallbacks(s, acc) ==
    RosterItemOrNull(IdFallback(acc.id, FirstLongDigitRun(s)),
                     NameFallback(acc.name, normalizeStudentName(s)))

\* parseRosterLine after `const s = line.trim()`
ParseTrimmedLine(s) ==
    IF s = << >> THEN None
    ELSE LineFallbacks(s,
            TokensOf(SplitOn(s, Whitespace \cup {",", "fw_comma", ";", "fw_semi"})))

\* parseRosterLine(line): None is null
parseRosterLine(line) == ParseTrimmedLine(Trim(line))

\* the end of the line that the line break at position b closes: /\r?\n/
LineEnd(text, b) == IF b > 1 /\ text[b - 1] = "cr" THEN b - 2 ELSE b - 1

\* the x-th line starts after the line break before it
LineStart(breaks, x) == IF x = 1 THEN 1 ELSE KeptAt(breaks, x - 1) + 1

\* and stops at the next line break, the last one at the end of the text
LineStop(text, breaks, x) ==
    IF x = Cardinality(breaks) + 1 THEN Len(text)
    ELSE LineEnd(text, KeptAt(breaks, x))

LinesAt(text, breaks) ==
    [x \in 1..(Cardinality(breaks) + 1) |->
        SubSeq(text, LineStart(breaks, x), LineStop(text, breaks, x))]

\* text.split(/\r?\n/g)
SplitLines(text) == LinesAt(text, {p \in 1..Len(text) : text[p] = "nl"})

\* .map((s) => parseRosterLine(s)).filter(Boolean)
RosterLines(lines) == Squeeze([p \in 1..Len(lines) |-> parseRosterLine(lines[p])])

\* if (id) byId.set(id, normalized) else byName.set(name, normalized)
RosterMapsSet(maps, id, name) ==
    IF id # << >>
    THEN [maps EXCEPT !.byId = MapSet(maps.byId, id, [studentId |-> id, name |-> name])]
    ELSE [maps EXCEPT !.byName = MapSet(maps.byName, name, [studentId |-> id, name |-> name])]

\* the first loop of the dedupe: [byId, byName] after the first n items
RECURSIVE RosterMaps(_, _)
RosterMaps(items, n) ==
    IF n = 0 THEN [byId |-> << >>, byName |-> << >>]
    ELSE RosterMapsSet(RosterMaps(items, n - 1),
                       normalizeStudentId(items[n].studentId),
                       normalizeStudentName(items[n].name))

\* mutant: every id-less item is pushed
MergePush_Always(merged, it) == Append(merged, it)

\* if (merged.some((x) => x.name === it.name)) continue; merged.push(it)
MergePush(merged, it) ==
    IF \E i \in 1..Len(merged) : merged[i].name = it.name THEN merged
    ELSE Append(merged, it)

\* `const merged = [...byId.values()]` and the loop over byName.values():
\* merged after the first n of them
RECURSIVE MergeByName(_, _, _)
MergeByName(ided, named, n) ==
    IF n = 0 THEN ided
    ELSE MergePush(MergeByName(ided, named, n - 1), named[n])

MergedRoster(maps) ==
    MergeByName(MapValues(maps.byId), MapValues(maps.byName), Len(maps.byName))

\* the dedupe of normalizeRoster
DedupeRoster(items) ==
    IF items = << >> THEN << >>
    ELSE MergedRoster(RosterMaps(items, Len(items)))

normalizeRoster(text) == DedupeRoster(RosterLines(SplitLines(text)))

(***************************************************************************)
(* geminiParseHomeworkScores: the validation of the oracle's reply         *)
(***************************************************************************)

\* Math.round of a number <<n>> or <<n, d>> (n.d, not negative)
MathRound(score) ==
    IF Len(score) = 1 THEN score[1]
    ELSE IF score[2] >= 5 THEN score[1] + 1 ELSE score[1]

\* rosterByName.get(name): the last roster item of that name
RosterByName(roster, name) ==
    {i \in 1..Len(roster) : roster[i].name # << >> /\ roster[i].name = name}

\* mutant: the lookup by id alone decides
OracleMatched_IdOnly(roster, studentId, name) ==
    IF studentId # << >> /\ FindById(roster, studentId) # {}
    THEN <<roster[Largest(FindById(roster, studentId))]>>
    ELSE << >>

\* const matched = matchedById ?? matchedByName
OracleMatched(roster, studentId, name) ==
    IF studentId # << >> /\ FindById(roster, studentId) # {}
    THEN <<roster[Largest(FindById(roster, studentId))]>>
    ELSE IF RosterByName(roster, name) # {}
    THEN <<roster[Largest(RosterByName(roster, name))]>>
    ELSE << >>

\* mutant: the name is not compared with the roster record
Aligned_AnyName(matched, studentId, name) ==
    ~(matched.studentId # << >> /\ matched.studentId # studentId)

\* `if (matched.name !== name) continue` and
\* `if (matched.studentId && matched.studentId !== studentId) continue`
Aligned(matched, studentId, name) ==
    /\ matched.name = name
    /\ ~(matched.studentId # << >> /\ matched.studentId # studentId)

\* { studentId: outId, name: matched.name, score: s }
OracleTriple(matched, s) ==
    [studentId |-> matched.studentId, name |-> matched.name, score |-> s]

\* the checks of one item once its fields are normalized
OracleChecked(roster, studentId, name, score) ==
    IF name = << >> THEN << >>
    ELSE IF score = << >> THEN << >>
    ELSE IF OracleMatched(roster, studentId, name) = << >> THEN << >>
    ELSE IF ~Aligned(OracleMatched(roster, studentId, name)[1], studentId, name)
    THEN << >>
    ELSE <<OracleTriple(OracleMatched(roster, studentId, name)[1],
                        clampScore(MathRound(score))[1])>>

\* the body of `for (const item of parsed)`: << >> when the item is skipped
OracleItem(roster, item) ==
    OracleChecked(roster, normalizeStudentId(item.studentId),
                  normalizeStudentName(item.name), item.score)

\* outId ? `id:${outId}` : `name:${matched.name}`; the oracle branch of
\* stopAndSave builds the same key from the triple
OraclePairKey(p) ==
    IF p.studentId # << >> THEN IdKey(p.studentId) ELSE NameKey(p.name)

\* byKey.set(key, ...) over the accepted items, after n items
RECURSIVE OracleByKey(_, _, _)
OracleByKey(roster, parsed, n) ==
    IF n = 0 THEN << >>
    ELSE IF OracleItem(roster, parsed[n]) = << >>
    THEN OracleByKey(roster, parsed, n - 1)
    ELSE MapSet(OracleByKey(roster, parsed, n - 1),
                OraclePairKey(OracleItem(roster, parsed[n])[1]),
                OracleItem(roster, parsed[n])[1])

\* what geminiParseHomeworkScores returns for the array `parsed`
OraclePairs(roster, parsed) == MapValues(OracleByKey(roster, parsed, Len(parsed)))

(***************************************************************************)
(* State                                                                   *)
(***************************************************************************)

VARIABLES
    rosterText,     \* useState rosterText: the roster textarea
    roster,         \* useMemo: normalizeRoster(rosterText)
    memo,           \* the parses of live texts over roster computed beforehand
    finalText,      \* useState finalText: the finalized transcript
    interimText,    \* useState interimText: the provisional transcript
    parsedLive,     \* useMemo: parsePairsFromText(liveText, roster)
    isRecording,    \* useState isRecording
    listening,      \* recognitionRef: the engine is started and has not ended
    spoken,         \* history: the utterances delivered as final fragments
    token,          \* the argument of chineseToNumber
    number,         \* its result, Pending before the call
    entries,        \* useState entries: the rows of the registry
    nextUid,        \* the next value uid() returns
    rosterVoiceOn,  \* useState rosterVoiceOn
    geminiMatchLoading, \* useState geminiMatchLoading
    geminiLoading,  \* useState geminiLoading
    requests,       \* the oracle requests made, settled or not
    geminiAbortRef, \* useRef geminiAbortRef: index of a request, 0 for null
    lastMerge,      \* history: the last merge into the registry
    response,       \* the array found in an oracle reply
    validated,      \* what geminiParseHomeworkScores returns for it
    sheet,          \* history: the last export
    argument,       \* the argument of the function under check
    returned,       \* what it returned, << >> before the call
    geminiPreview,  \* useState geminiPreview: the names the oracle extracted
    geminiModelsLoading, \* useState geminiModelsLoading
    rosterAiLoading, \* useState rosterAiLoading
    fetches,        \* the model-list and roster-AI requests made
    geminiModelsAbortRef, \* useRef: index into fetches, 0 for null
    rosterAiAbortRef \* useRef: index into fetches, 0 for null

vars ==
    <<rosterText, roster, memo, finalText, interimText, parsedLive, isRecording,
      listening, spoken, token, number, entries, nextUid, rosterVoiceOn,
      geminiMatchLoading, geminiLoading, requests, geminiAbortRef, lastMerge,
      response, validated, sheet, argument, returned, geminiPreview,
      geminiModelsLoading, rosterAiLoading, fetches, geminiModelsAbortRef,
      rosterAiAbortRef>>

registryVars == <<entries, nextUid, lastMerge>>

oracleVars == <<geminiMatchLoading, geminiLoading, requests, geminiAbortRef>>

replyVars == <<response, validated>>

appVars == <<registryVars, rosterVoiceOn, oracleVars, sheet>>

transcriptVars == <<finalText, interimText, parsedLive>>

sessionVars == <<transcriptVars, isRecording, listening>>

rosterVars == <<rosterText, roster, memo>>

numeralVars == <<token, number>>

callVars == <<argument, returned>>

loadingVars ==
    <<geminiModelsLoading, rosterAiLoading, fetches, geminiModelsAbortRef,
      rosterAiAbortRef>>

panelVars == <<geminiPreview, loadingVars>>

\* const liveText = (finalText + ' ' + interimText).trim()
liveTextOf(final, interim) == Trim(final \o <<" ">> \o interim)

liveText == liveTextOf(finalText, interimText)

(***************************************************************************)
(* Inputs                                                                  *)
(***************************************************************************)

ZhangSan == <<"zhang", "san">>

LiSi == <<"li", "si">>

HeWei == <<"he", "wei">>

ZhaoLiu == <<"zhao", "liu">>

Id2401 == <<"2", "4", "0", "1">>

Id2409 == <<"2", "4", "0", "9">>

\* the longest transcript the engine delivers
MaxTextLen == 14

\* roster texts typed into the textarea
ParseRosterTexts ==
    { Id2401 \o <<" ">> \o ZhangSan \o <<"nl">> \o LiSi \o <<"nl">> \o HeWei,
      LiSi \o <<" ">> \o Id2401 \o <<"nl">> \o Id2409 \o <<" ">> \o LiSi }

\* What the teacher says for one student: subject, separator, copula, score
\* token, unit.  The separator also follows the copula.
UtteranceText(u) ==
    u.subject \o u.sep \o u.cop \o (IF u.cop # << >> THEN u.sep ELSE << >>)
        \o u.score \o u.unit

Subjects == {ZhangSan, LiSi, HeWei, ZhaoLiu, Id2401, Id2409}

ArabicScores == {<<"9", "5">>, <<"8">>, <<"1", "5", "0">>}

ChineseScores == {<<"jiu", "shi", "wu">>}

Utterances ==
    [subject : Subjects, sep : {<<" ">>}, cop : {<< >>, <<"de">>},
     score : ArabicScores, unit : {<< >>}]
    \cup
    [subject : Subjects, sep : {<< >>, <<" ">>}, cop : {<< >>},
     score : ChineseScores, unit : {<<"fen">>}]

\* "2401 张三\n李四\n何为"
AppRosterText ==
    Id2401 \o <<" ">> \o ZhangSan \o <<"nl">> \o LiSi \o <<"nl">> \o HeWei

\* what the engine finalizes
AppFinals == {ZhangSan \o <<" ", "9", "5">>, LiSi \o <<" ", "8">>}

\* what the engine reports as provisional
AppInterims == {<< >>, ZhangSan \o <<" ", "8">>}

\* finalText after at most n final fragments
AppendFinals(texts) ==
    texts \cup {t \o <<" ">> \o f : t \in texts \ {<< >>}, f \in AppFinals}
          \cup AppFinals

RECURSIVE AppFinalTexts(_)
AppFinalTexts(n) == IF n = 0 THEN {<< >>} ELSE AppendFinals(AppFinalTexts(n - 1))

\* fragments a transcript of MaxTextLen characters can hold, each of them of
\* four characters or more and a space
MaxFragments == (MaxTextLen + 1) \div 5 + 1

AppLiveTexts ==
    {liveTextOf(final, interim) :
        final \in AppFinalTexts(MaxFragments), interim \in AppInterims}

\* the parses of the component's live texts over the roster ros
MemoParsed(ros) ==
    {<<text, parsePairsFromText(text, ros)>> : text \in AppLiveTexts}

\* useMemo(() => parsePairsFromText(liveText, roster), [liveText, roster]):
\* a parse computed beforehand is looked up
useMemoParsed(text) ==
    IF \E parsed \in memo : parsed[1] = text
    THEN (CHOOSE parsed \in memo : parsed[1] = text)[2]
    ELSE parsePairsFromText(text, roster)

(***************************************************************************)
(* Speech events                                                           *)
(***************************************************************************)

\* rec.onresult with the event's final fragments joined to appendedFinal and
\* its non-final fragments joined to interim
OnResult(appendedFinal, interim) ==
    /\ listening
    /\ finalText' = IF appendedFinal # << >>
                    THEN (IF finalText # << >>
                          THEN finalText \o <<" ">> \o appendedFinal
                          ELSE appendedFinal)
                    ELSE finalText
    /\ interimText' = interim
    /\ parsedLive' = useMemoParsed(liveTextOf(finalText', interimText'))
    /\ UNCHANGED <<isRecording, listening, rosterVars>>

\* the engine finalizes one utterance
Speak(u) ==
    /\ Len(finalText) + 1 + Len(UtteranceText(u)) <= MaxTextLen
    /\ OnResult(UtteranceText(u), << >>)
    /\ spoken' = Append(spoken, u)
    /\ UNCHANGED <<numeralVars, callVars, panelVars, appVars, replyVars>>

\* no result yet: neither null nor a number
Pending == <<0, 0>>

NumeralIdle == token = << >> /\ number = Pending

CallIdle == argument = << >> /\ returned = << >>

PanelIdle ==
    /\ geminiPreview = << >>
    /\ geminiModelsLoading = FALSE
    /\ rosterAiLoading = FALSE
    /\ fetches = << >>
    /\ geminiModelsAbortRef = 0
    /\ rosterAiAbortRef = 0

RegistryIdle == entries = << >> /\ nextUid = 1 /\ lastMerge = << >>

OracleIdle ==
    /\ geminiMatchLoading = FALSE
    /\ geminiLoading = FALSE
    /\ requests = << >>
    /\ geminiAbortRef = 0

ReplyIdle == response = << >> /\ validated = << >>

AppIdle == RegistryIdle /\ rosterVoiceOn = FALSE /\ OracleIdle /\ sheet = << >>

TranscriptIdle ==
    /\ finalText = << >>
    /\ interimText = << >>
    /\ parsedLive = << >>
    /\ isRecording = FALSE
    /\ listening = FALSE
    /\ spoken = << >>

(***************************************************************************)
(* SpecParse: a recording session over a fixed roster                      *)
(***************************************************************************)

InitParse ==
    /\ rosterText \in ParseRosterTexts
    /\ roster = normalizeRoster(rosterText)
    /\ memo = {}
    /\ finalText = << >>
    /\ interimText = << >>
    /\ parsedLive = << >>
    /\ isRecording = TRUE
    /\ listening = TRUE
    /\ spoken = << >>
    /\ NumeralIdle
    /\ CallIdle
    /\ PanelIdle
    /\ AppIdle
    /\ ReplyIdle

NextParse == \E u \in Utterances : Speak(u)

SpecParse == InitParse /\ [][NextParse]_vars

(***************************************************************************)
(* Properties of parsePairsFromText (SpecParse)                            *)
(***************************************************************************)

\* the matches of the scan of the live text, and `results` before the dedupe
liveMatches == matchAll(normalizeTranscript(liveText), 1)

liveResults == ResultsOf(liveMatches, roster)

RosterNames == {roster[px].name : px \in 1..Len(roster)}

RosterIds == {roster[px].studentId : px \in 1..Len(roster)} \ {<< >>}

IsArabic(tok) == Len(tok) \in 1..3 /\ \A px \in 1..Len(tok) : tok[px] \in AsciiDigit

IsChinese(tok) == Len(tok) \in 1..6 /\ \A px \in 1..Len(tok) : tok[px] \in ChineseNumeral

IsDigits(tok) == \A px \in 1..Len(tok) : tok[px] \in AsciiDigit

\* max(0, min(100, n))
Clamped(nm) == Max(0, Min(100, nm))

\* a roster name, whitespace, an optional copula, a 1-3 digit Arabic score
NamedThenArabic(u) ==
    /\ u.subject \in RosterNames
    /\ u.sep = <<" ">>
    /\ u.cop = << >> \/ (Len(u.cop) = 1 /\ u.cop[1] \in Copula)
    /\ IsArabic(u.score)
    /\ u.unit = << >>

\* the name holds none of the normalizer's noise words
NoNoiseIn(name) ==
    \A rx \in 1..Len(noise) : \A px \in 1..Len(name) : ~OccursAt(name, noise[rx], px)

\* the last utterance about a subject
LastSpokenOf(nm) == spoken[Largest({px \in 1..Len(spoken) : spoken[px].subject = nm})]

PairsNamed(nm) == {rx \in 1..Len(parsedLive) : parsedLive[rx].name = nm}

FirstNamed(nm) == roster[Smallest({px \in 1..Len(roster) : roster[px].name = nm})]

\* C1 as stated: every roster name spoken as "name [copula] score" yields
\* exactly one exact pair with a roster entry's id and name and the spoken
\* score, whatever characters the name is made of.
C1_EveryRosterNameExtracted ==
    (\A px \in 1..Len(spoken) : NamedThenArabic(spoken[px])) =>
        \A px \in 1..Len(spoken) :
            /\ Cardinality(PairsNamed(spoken[px].subject)) = 1
            /\ \A rx \in PairsNamed(spoken[px].subject) :
                /\ parsedLive[rx].matchType = "exact"
                /\ \E qx \in 1..Len(roster) :
                    /\ roster[qx].name = spoken[px].subject
                    /\ roster[qx].studentId = parsedLive[rx].studentId
                /\ parsedLive[rx].score = ParseInt(LastSpokenOf(spoken[px].subject).score)

\* C1 amended: when every utterance is "name [copula] score" with a roster
\* name of 2 to 8 characters that holds no noise word, each distinct name
\* spoken has exactly one pair: exact, with the id and name of the first
\* roster entry of that name, and the last score spoken for it clamped to
\* [0,100].
C1_NoiseFreeRosterNameExtracted ==
    (\A px \in 1..Len(spoken) :
        /\ NamedThenArabic(spoken[px])
        /\ Len(spoken[px].subject) \in 2..8
        /\ NoNoiseIn(spoken[px].subject)) =>
        \A px \in 1..Len(spoken) :
            /\ Cardinality(PairsNamed(spoken[px].subject)) = 1
            /\ \A rx \in PairsNamed(spoken[px].subject) :
                /\ parsedLive[rx].matchType = "exact"
                /\ parsedLive[rx].studentId = FirstNamed(spoken[px].subject).studentId
                /\ parsedLive[rx].score =
                       Clamped(ParseInt(LastSpokenOf(spoken[px].subject).score))

\* two different roster names were spoken, one with a copula, and both pairs
\* are there
C1_Witness ==
    /\ Len(spoken) = 2
    /\ \A px \in 1..2 : NamedThenArabic(spoken[px]) /\ NoNoiseIn(spoken[px].subject)
    /\ spoken[1].subject # spoken[2].subject
    /\ spoken[2].cop # << >>
    /\ Len(parsedLive) = 2

\* the last position of `results` holding the key of its rx-th item
LastWithKey(results, rx) ==
    Largest({qx \in 1..Len(results) : PairKey(results[qx]) = PairKey(results[rx])})

\* C2: at most one pair per identity key, and it is the last match of the
\* transcript that resolved to that key; a student named by id and later by
\* name keeps the later score.
C2_LastOccurrenceWins ==
    /\ \A px, qx \in 1..Len(parsedLive) :
          PairKey(parsedLive[px]) = PairKey(parsedLive[qx]) => px = qx
    /\ \A rx \in 1..Len(liveResults) :
          \E px \in 1..Len(parsedLive) :
              parsedLive[px] = liveResults[LastWithKey(liveResults, rx)]
    /\ \A px \in 1..Len(parsedLive) :
          \E rx \in 1..Len(liveResults) :
              parsedLive[px] = liveResults[LastWithKey(liveResults, rx)]
    /\ (/\ Len(spoken) = 2
        /\ IsArabic(spoken[1].score) /\ IsArabic(spoken[2].score)
        /\ spoken[1].subject \in RosterIds
        /\ spoken[2].subject \in RosterNames
        /\ FirstNamed(spoken[2].subject).studentId = spoken[1].subject)
       => /\ Len(parsedLive) = 1
          /\ parsedLive[1].studentId = spoken[1].subject
          /\ parsedLive[1].score = Clamped(ParseInt(spoken[2].score))

\* a student was named by id, then by name with another score
C2_Witness ==
    /\ Len(spoken) = 2
    /\ spoken[1].subject \in RosterIds
    /\ spoken[2].subject \in RosterNames
    /\ FirstNamed(spoken[2].subject).studentId = spoken[1].subject
    /\ IsArabic(spoken[1].score) /\ IsArabic(spoken[2].score)
    /\ spoken[1].score # spoken[2].score
    /\ Len(liveResults) = 2
    /\ Len(parsedLive) = 1

\* C3 as stated: a roster name directly followed by a Chinese numeral and the
\* unit, with or without a space in between, yields a pair with that name and
\* the numeral's value.
C3_NameThenChineseNumeral ==
    (/\ Len(spoken) = 1
     /\ spoken[1].subject \in RosterNames
     /\ NoNoiseIn(spoken[1].subject)
     /\ spoken[1].cop = << >>
     /\ IsChinese(spoken[1].score)
     /\ spoken[1].unit = <<"fen">>)
    => \E rx \in 1..Len(parsedLive) :
          /\ parsedLive[rx].name = spoken[1].subject
          /\ parsedLive[rx].score = Clamped(chineseToNumber(spoken[1].score)[1])

\* C5: every emitted pair carries max(0, min(100, n)) of the integer n its
\* score token was interpreted as, so every score lies in [0,100] and a
\* spoken score above 100 is recorded as 100.
C5_ClampLaw ==
    /\ Len(liveResults) = Len(liveMatches)
    /\ \A rx \in 1..Len(liveResults) :
          /\ chineseToNumber(liveMatches[rx].score) # None
          /\ liveResults[rx].score = Clamped(chineseToNumber(liveMatches[rx].score)[1])
    /\ \A px \in 1..Len(parsedLive) : parsedLive[px].score \in 0..100
    /\ (Len(spoken) = 1 /\ IsArabic(spoken[1].score)) =>
          \A px \in 1..Len(parsedLive) :
              parsedLive[px].score = Clamped(ParseInt(spoken[1].score))

\* a score above 100 was spoken and a pair with 100 is there
C5_Witness ==
    /\ Len(spoken) = 1
    /\ IsArabic(spoken[1].score)
    /\ ParseInt(spoken[1].score) > 100
    /\ Len(parsedLive) = 1
    /\ parsedLive[1].score = 100

\* what C6 says of the pair made from a match with subject `subject`
ResolvedAsClaimed(pair, subject) ==
    IF IsDigits(subject)
    THEN IF subject \in RosterIds
         THEN /\ \E qx \in 1..Len(roster) :
                    /\ roster[qx].studentId = subject
                    /\ pair.studentId = subject /\ pair.name = roster[qx].name
              /\ pair.matchType = "exact" /\ pair.confidence = 1
         ELSE /\ pair.studentId = subject
              /\ pair.matchType = "raw" /\ pair.confidence = 0
    ELSE IF subject \in RosterNames
         THEN /\ pair.name = subject
              /\ pair.studentId = FirstNamed(subject).studentId
              /\ pair.matchType = "exact" /\ pair.confidence = 1
         ELSE /\ pair.name = subject /\ pair.studentId = << >>
              /\ pair.matchType = "raw" /\ pair.confidence = 0

\* C6: a digit subject equal to a roster id, or a name subject equal to a
\* roster name, gives that entry as exact with confidence 1, anything else
\* the spoken subject as raw with confidence 0; so a pair is exact iff its
\* (studentId, name) is a roster entry, and its confidence is 1 iff exact.
C6_SubjectResolution ==
    /\ Len(liveResults) = Len(liveMatches)
    /\ \A rx \in 1..Len(liveResults) :
          ResolvedAsClaimed(liveResults[rx], liveMatches[rx].subject)
    /\ \A px \in 1..Len(parsedLive) :
          /\ parsedLive[px].matchType = "exact" <=>
                \E qx \in 1..Len(roster) :
                    /\ roster[qx].studentId = parsedLive[px].studentId
                    /\ roster[qx].name = parsedLive[px].name
          /\ parsedLive[px].confidence = 1 <=> parsedLive[px].matchType = "exact"
          /\ parsedLive[px].confidence \in {0, 1}

\* one pair resolved by id and one unknown subject kept raw
C6_Witness ==
    /\ \E px \in 1..Len(parsedLive) :
          /\ parsedLive[px].matchType = "exact"
          /\ parsedLive[px].rawStudentId \in RosterIds
    /\ \E px \in 1..Len(parsedLive) :
          /\ parsedLive[px].matchType = "raw"
          /\ parsedLive[px].rawStudentId # << >>

\* the number the score token of a match is interpreted as, None if it is not
NumberOfMatch(rx) == chineseToNumber(Trim(liveMatches[rx].score))

Unparseable(rx) == NumberOfMatch(rx) = None

OutOfRange(rx) == NumberOfMatch(rx) # None /\ NumberOfMatch(rx)[1] \notin 0..100

Skipped(rx) == PairOfMatch(liveMatches[rx], roster) = None

\* C20 as stated: a candidate is skipped when its score token is unparseable
\* or its score is outside [0,100], and every other candidate is emitted.
C20_BadScoresSkipped ==
    \A rx \in 1..Len(liveMatches) :
        Skipped(rx) <=> (Unparseable(rx) \/ OutOfRange(rx))

\* C20, amended: a candidate is skipped only when its score token is
\* unparseable; a candidate with a score outside [0,100] is emitted with the
\* clamped score, and every candidate that is not skipped is in the results, in
\* the order of the scan.
C20_OnlyUnparseableSkipped ==
    /\ \A rx \in 1..Len(liveMatches) : Skipped(rx) <=> Unparseable(rx)
    /\ \A rx \in 1..Len(liveMatches) :
           OutOfRange(rx) =>
               PairOfMatch(liveMatches[rx], roster)[1].score
                   = Clamped(NumberOfMatch(rx)[1])
    /\ Len(liveResults) = Cardinality({rx \in 1..Len(liveMatches) : ~Skipped(rx)})

\* two candidates, the first with a score above 100, both emitted
C20_Witness ==
    /\ Len(liveMatches) = 2
    /\ OutOfRange(1)
    /\ ~OutOfRange(2)
    /\ Len(liveResults) = 2
    /\ liveResults[1].score = 100

(***************************************************************************)
(* The registry: entries, the merge of stopAndSave, the row handlers       *)
(***************************************************************************)

\* a row of the registry; score is << >> for '', <<n>> for the integer n and
\* <<n, d>> for the decimal n.d
Entry(id, studentId, name, score) ==
    [id |-> id, studentId |-> studentId, name |-> name, score |-> score]

\* mutant: the rows are keyed by name alone
EntryKey_ByName(e) == NameKey(Trim(e.name))

\* e.studentId ? `id:${e.studentId.trim()}` : `name:${e.name.trim()}`
EntryKey(e) ==
    IF e.studentId # << >> THEN IdKey(Trim(e.studentId)) ELSE NameKey(Trim(e.name))

\* `for (const e of prev) map.set(key0, e)`, after n rows
RECURSIVE EntryMap(_, _)
EntryMap(prev, n) ==
    IF n = 0 THEN << >>
    ELSE MapSet(EntryMap(prev, n - 1), EntryKey(prev[n]), prev[n])

\* the key of a parsed pair in the local branches
LocalPairKey(p) ==
    IF p.studentId # << >> THEN IdKey(p.studentId) ELSE NameKey(Trim(p.name))

MergeKeyOf(p, local) == IF local THEN LocalPairKey(p) ELSE OraclePairKey(p)

\* `if (!key0 || key0 === 'name:') continue`, in the local branches only
SkipsPair(p, local) == local /\ LocalPairKey(p) = NameKey(<< >>)

\* { ...existing, studentId: p.studentId, name: p.name, score: p.score }
Overwrite(existing, p) ==
    [existing EXCEPT !.studentId = p.studentId, !.name = p.name,
                     !.score = <<p.score>>]

\* the body of `for (const p of pairs)`; acc holds the map and the uid counter
MergePair(acc, p, local) ==
    IF SkipsPair(p, local) THEN acc
    ELSE IF MapHas(acc.map, MergeKeyOf(p, local))
    THEN [acc EXCEPT !.map = MapSet(acc.map, MergeKeyOf(p, local),
                         Overwrite(MapGet(acc.map, MergeKeyOf(p, local)), p))]
    ELSE [map |-> MapSet(acc.map, MergeKeyOf(p, local),
                         Entry(<<acc.uid>>, p.studentId, p.name, <<p.score>>)),
          uid |-> acc.uid + 1]

RECURSIVE MergePairs(_, _, _, _, _)
MergePairs(prev, uid0, pairs, local, n) ==
    IF n = 0 THEN [map |-> EntryMap(prev, Len(prev)), uid |-> uid0]
    ELSE MergePair(MergePairs(prev, uid0, pairs, local, n - 1), pairs[n], local)

\* the updater of setEntries in stopAndSave: Array.from(map.values())
Merged(prev, uid0, pairs, local) ==
    MapValues(MergePairs(prev, uid0, pairs, local, Len(pairs)).map)

UidAfter(prev, uid0, pairs, local) ==
    MergePairs(prev, uid0, pairs, local, Len(pairs)).uid

\* setEntries((prev) => merge of pairs into prev), with the history of it
MergeInto(pairs, local) ==
    /\ entries' = Merged(entries, nextUid, pairs, local)
    /\ nextUid' = UidAfter(entries, nextUid, pairs, local)
    /\ lastMerge' = <<[before |-> entries, uid |-> nextUid, pairs |-> pairs,
                       local |-> local]>>

\* the variables no handler of the component writes
fixedVars == <<rosterVars, spoken, numeralVars, callVars, panelVars, replyVars>>

\* rosterById.get(nextId): the last roster item of that id
rosterById(nextId) ==
    IF nextId # << >> /\ FindById(roster, nextId) # {}
    THEN <<roster[Largest(FindById(roster, nextId))]>>
    ELSE << >>

\* rosterNameCounts.get(nextName) ?? 0
rosterNameCounts(nextName) == Cardinality(FindByName(roster, nextName))

\* nextName && count === 1 ? roster.find((x) => x.name === nextName) : undefined
UniqueByName(nextName) ==
    IF nextName # << >> /\ rosterNameCounts(nextName) = 1
    THEN <<roster[Smallest(FindByName(roster, nextName))]>>
    ELSE << >>

\* the number a number input reports: an optional sign, digits, and at most
\* one decimal
SignLen(v) == IF v[1] = "-" THEN 1 ELSE 0

PointAt(v) == Smallest({n \in 1..Len(v) : v[n] = "."} \cup {Len(v) + 1})

WholeOf(v) == ParseInt(SubSeq(v, SignLen(v) + 1, PointAt(v) - 1))

TenthOf(v) == IF PointAt(v) < Len(v) THEN DigitValue[v[PointAt(v) + 1]] ELSE 0

\* v === '' ? '' : clampScore(Number(v)) ?? ''
TypedScore(v) ==
    IF v = << >> THEN << >>
    ELSE IF SignLen(v) = 1 /\ (WholeOf(v) > 0 \/ TenthOf(v) > 0) THEN <<0>>
    ELSE IF WholeOf(v) > 100 \/ (WholeOf(v) = 100 /\ TenthOf(v) > 0) THEN <<100>>
    ELSE IF TenthOf(v) = 0 THEN <<WholeOf(v)>>
    ELSE <<WholeOf(v), TenthOf(v)>>

\* prev.map((r) => (r.id === row.id ? f(r) : r))
MapRow(prev, id, f(_)) ==
    [n \in 1..Len(prev) |-> IF prev[n].id = id THEN f(prev[n]) ELSE prev[n]]

\* the onChange of the studentId input of a row
EditedId(r, value) ==
    [r EXCEPT !.studentId = normalizeStudentId(value),
              !.name = IF rosterById(normalizeStudentId(value)) # << >>
                       THEN rosterById(normalizeStudentId(value))[1].name
                       ELSE r.name]

\* the onChange of the name input of a row
EditedName(r, value) ==
    [r EXCEPT !.name = value,
              !.studentId = IF UniqueByName(normalizeStudentName(value)) # << >>
                            THEN UniqueByName(normalizeStudentName(value))[1].studentId
                            ELSE r.studentId]

\* the onChange of the score input of a row
EditedScore(r, value) == [r EXCEPT !.score = TypedScore(value)]

(***************************************************************************)
(* Inputs of the component                                                 *)
(***************************************************************************)

\* ids uid() issues before the model stops creating rows
MaxUid == 2

\* oracle requests issued before the model stops issuing them
MaxRequests == 2

\* what the user types into the cells of a row
IdInputs == {Id2401}

NameInputs == {LiSi}

ScoreInputs == {<<"9", "5", ".", "5">>, <<"1", "5", "0">>}

\* the ways the oracle call throws: transport error, non-2xx status,
\* malformed JSON
OracleFailures == {"transport", "status", "json"}

RawItem(studentId, name, score) ==
    [studentId |-> studentId, name |-> name, score |-> score]

\* the arrays the oracle replies with; << >> also stands for a reply with no
\* array in it
AppReplies ==
    { << >>,
      <<RawItem(Id2401, ZhangSan, <<8>>)>>,
      <<RawItem(<< >>, LiSi, <<9, 5>>), RawItem(<< >>, ZhaoLiu, <<8>>)>> }

(***************************************************************************)
(* The handlers of the component                                           *)
(***************************************************************************)

\* start(): the button is disabled while isRecording; rec.start() throws when
\* the engine has not ended yet
Start ==
    /\ ~isRecording
    /\ finalText' = << >>
    /\ interimText' = << >>
    /\ parsedLive' = useMemoParsed(liveTextOf(finalText', interimText'))
    /\ isRecording' = ~listening
    /\ listening' = TRUE
    /\ UNCHANGED <<fixedVars, appVars>>

\* rec.onresult during a session of the component
Result(appendedFinal, interim) ==
    /\ Len(finalText) + 1 + Len(appendedFinal) <= MaxTextLen
    /\ OnResult(appendedFinal, interim)
    /\ UNCHANGED <<spoken, numeralVars, callVars, panelVars, replyVars, appVars>>

\* mutant: the error handler also drops the transcript
OnError_DropsTranscript ==
    /\ listening
    /\ isRecording' = FALSE
    /\ listening' = FALSE
    /\ finalText' = << >>
    /\ UNCHANGED <<interimText, parsedLive, fixedVars, appVars>>

\* rec.onerror; the engine ends
OnError ==
    /\ listening
    /\ isRecording' = FALSE
    /\ listening' = FALSE
    /\ UNCHANGED <<transcriptVars, fixedVars, appVars>>

\* rec.onend
OnEnd ==
    /\ listening
    /\ isRecording' = FALSE
    /\ listening' = FALSE
    /\ UNCHANGED <<transcriptVars, fixedVars, appVars>>

\* mutant: abort() leaves the request alone
Aborted_NoOp(reqs, ref) == reqs

\* geminiAbortRef.current?.abort(): the fetch of a pending request rejects; a
\* request that has settled is past its fetch
Aborted(reqs, ref) ==
    [n \in 1..Len(reqs) |->
        IF n = ref /\ ~reqs[n].settled THEN [reqs[n] EXCEPT !.aborted = TRUE]
        ELSE reqs[n]]

\* a request as issued: the closure's parsedLive goes with a match request;
\* `cleared` is history: clearAll() ran while the request was pending
Request(kind, pairs) ==
    [kind |-> kind, aborted |-> FALSE, settled |-> FALSE, delivered |-> FALSE,
     cleared |-> FALSE, parsedLive |-> pairs]

\* abort the controller in the ref, make a new one, send the request
Issue(kind, pairs) ==
    /\ Len(requests) < MaxRequests
    /\ requests' = Append(Aborted(requests, geminiAbortRef), Request(kind, pairs))
    /\ geminiAbortRef' = Len(requests) + 1

\* stopAndSave() up to the await; canUseGemini is the settings at the click
StopAndSave(canUseGemini) ==
    /\ (isRecording \/ liveText # << >>) /\ ~geminiMatchLoading
    /\ isRecording' = FALSE
    /\ IF liveText = << >> THEN UNCHANGED <<registryVars, oracleVars>>
       ELSE IF canUseGemini /\ Len(roster) > 0
       THEN /\ Issue("match", parsedLive)
            /\ geminiMatchLoading' = TRUE
            /\ UNCHANGED <<registryVars, geminiLoading>>
       ELSE /\ UidAfter(entries, nextUid, parsedLive, TRUE) <= MaxUid + 1
            /\ MergeInto(parsedLive, TRUE)
            /\ UNCHANGED oracleVars
    /\ UNCHANGED <<transcriptVars, listening, fixedVars, rosterVoiceOn, sheet>>

\* the request settles: its closure is gone; `delivered` records that the pairs
\* of its response were merged
Settled(n, delivered) ==
    requests' = [requests EXCEPT ![n].settled = TRUE, ![n].delivered = delivered,
                                 ![n].parsedLive = << >>, ![n].cleared = FALSE]

\* stopAndSave() after the await, the call having returned the validated
\* pairs of the array `parsed`
MatchReturns(n, parsed) ==
    /\ n \in 1..Len(requests)
    /\ requests[n].kind = "match" /\ ~requests[n].settled /\ ~requests[n].aborted
    /\ UidAfter(entries, nextUid, OraclePairs(roster, parsed), FALSE) <= MaxUid + 1
    /\ MergeInto(OraclePairs(roster, parsed), FALSE)
    /\ Settled(n, TRUE)
    /\ geminiMatchLoading' = FALSE
    /\ UNCHANGED <<sessionVars, fixedVars, rosterVoiceOn, geminiLoading,
                   geminiAbortRef, sheet>>

\* stopAndSave() after the await, the call having thrown: an AbortError when
\* the controller was aborted, one of the failures otherwise.  The catch merges
\* the closure's parsedLive.
MatchThrows(n, failure) ==
    /\ n \in 1..Len(requests)
    /\ requests[n].kind = "match" /\ ~requests[n].settled
    /\ UidAfter(entries, nextUid, requests[n].parsedLive, TRUE) <= MaxUid + 1
    /\ MergeInto(requests[n].parsedLive, TRUE)
    /\ Settled(n, FALSE)
    /\ geminiMatchLoading' = FALSE
    /\ UNCHANGED <<sessionVars, fixedVars, rosterVoiceOn, geminiLoading,
                   geminiAbortRef, sheet>>

\* runGeminiRoster() up to the await
RunGeminiRoster ==
    /\ ~geminiLoading
    /\ geminiPreview' = << >>
    /\ Issue("roster", << >>)
    /\ geminiLoading' = TRUE
    /\ UNCHANGED <<sessionVars, rosterVars, spoken, numeralVars, callVars,
                   loadingVars, replyVars, registryVars, rosterVoiceOn,
                   geminiMatchLoading, sheet>>

\* runGeminiRoster() after the await: a preview or a status, then the finally
RosterSettles(n) ==
    /\ n \in 1..Len(requests)
    /\ requests[n].kind = "roster" /\ ~requests[n].settled
    /\ Settled(n, FALSE)
    /\ geminiLoading' = FALSE
    /\ UNCHANGED <<sessionVars, fixedVars, registryVars, rosterVoiceOn,
                   geminiMatchLoading, geminiAbortRef, sheet>>

\* cancelGemini(): the button is enabled while geminiLoading
CancelGemini ==
    /\ geminiLoading
    /\ requests' = Aborted(requests, geminiAbortRef)
    /\ geminiAbortRef' = 0
    /\ UNCHANGED <<sessionVars, fixedVars, registryVars, rosterVoiceOn,
                   geminiMatchLoading, geminiLoading, sheet>>

\* the requests after clearAll(): it touches no controller, a pending match
\* request stays pending
ClearedOver(reqs) ==
    [n \in 1..Len(reqs) |->
        IF reqs[n].kind = "match" /\ ~reqs[n].settled
        THEN [reqs[n] EXCEPT !.cleared = TRUE]
        ELSE reqs[n]]

\* clearAll(): rec.abort() ends the engine
ClearAll ==
    /\ finalText # << >> \/ interimText # << >> \/ entries # << >>
    /\ isRecording' = FALSE
    /\ listening' = FALSE
    /\ finalText' = << >>
    /\ interimText' = << >>
    /\ parsedLive' = useMemoParsed(liveTextOf(finalText', interimText'))
    /\ entries' = << >>
    /\ lastMerge' = << >>
    /\ requests' = ClearedOver(requests)
    /\ UNCHANGED <<nextUid, fixedVars, rosterVoiceOn, geminiMatchLoading,
                   geminiLoading, geminiAbortRef, sheet>>

\* a handler that rewrites the rows without a merge
SetEntries(next) ==
    /\ entries' = next
    /\ lastMerge' = << >>
    /\ UNCHANGED <<sessionVars, fixedVars, rosterVoiceOn, oracleVars, sheet>>

\* addEmptyRow()
AddEmptyRow ==
    /\ nextUid <= MaxUid
    /\ nextUid' = nextUid + 1
    /\ SetEntries(Append(entries, Entry(<<nextUid>>, << >>, << >>, << >>)))

EditId(n, value) ==
    /\ n \in 1..Len(entries)
    /\ UNCHANGED nextUid
    /\ SetEntries(MapRow(entries, entries[n].id, LAMBDA r : EditedId(r, value)))

EditName(n, value) ==
    /\ n \in 1..Len(entries)
    /\ UNCHANGED nextUid
    /\ SetEntries(MapRow(entries, entries[n].id, LAMBDA r : EditedName(r, value)))

EditScore(n, value) ==
    /\ n \in 1..Len(entries)
    /\ UNCHANGED nextUid
    /\ SetEntries(MapRow(entries, entries[n].id, LAMBDA r : EditedScore(r, value)))

\* prev.filter((r) => r.id !== row.id)
DeleteRow(n) ==
    /\ n \in 1..Len(entries)
    /\ UNCHANGED nextUid
    /\ SetEntries(SelectSeq(entries, LAMBDA r : r.id # entries[n].id))

\* startRosterVoice(): the button is disabled while rosterVoiceOn
StartRosterVoice ==
    /\ ~rosterVoiceOn
    /\ ~isRecording
    /\ rosterVoiceOn' = TRUE
    /\ UNCHANGED <<sessionVars, fixedVars, registryVars, oracleVars, sheet>>

\* stopRosterVoice(), and onerror and onend of the roster recognizer
StopRosterVoice ==
    /\ rosterVoiceOn
    /\ rosterVoiceOn' = FALSE
    /\ UNCHANGED <<sessionVars, fixedVars, registryVars, oracleVars, sheet>>

(***************************************************************************)
(* Spec: the component, from its first render                              *)
(***************************************************************************)

Init ==
    /\ rosterText = AppRosterText
    /\ roster = normalizeRoster(rosterText)
    /\ memo = MemoParsed(roster)
    /\ TranscriptIdle
    /\ NumeralIdle
    /\ CallIdle
    /\ PanelIdle
    /\ AppIdle
    /\ ReplyIdle

\* the oracle's settlements and the buttons of the oracle panel
OracleStep ==
    \/ \E n \in 1..MaxRequests, parsed \in AppReplies : MatchReturns(n, parsed)
    \/ \E n \in 1..MaxRequests, failure \in OracleFailures : MatchThrows(n, failure)
    \/ RunGeminiRoster
    \/ \E n \in 1..MaxRequests : RosterSettles(n)
    \/ CancelGemini

Next ==
    \/ Start
    \/ \E appendedFinal \in AppFinals : Result(appendedFinal, << >>)
    \/ OnEnd
    \/ \E canUseGemini \in BOOLEAN : StopAndSave(canUseGemini)
    \/ OracleStep
    \/ ClearAll

Spec == Init /\ [][Next]_vars

(***************************************************************************)
(* SpecSession: the two recognizers and the transcript                     *)
(***************************************************************************)

NextSession ==
    \/ Start
    \/ \E appendedFinal \in AppFinals \cup {<< >>}, interim \in AppInterims :
           Result(appendedFinal, interim)
    \/ OnError
    \/ OnEnd
    \/ StopAndSave(FALSE)
    \/ ClearAll
    \/ StartRosterVoice
    \/ StopRosterVoice

SpecSession == Init /\ [][NextSession]_vars

(***************************************************************************)
(* SpecRegistry: the registry under local saves and the row handlers       *)
(***************************************************************************)

NextRegistry ==
    \/ Start
    \/ \E appendedFinal \in AppFinals : Result(appendedFinal, << >>)
    \/ StopAndSave(FALSE)
    \/ ClearAll
    \/ AddEmptyRow
    \/ \E n \in 1..MaxUid, value \in IdInputs : EditId(n, value)
    \/ \E n \in 1..MaxUid, value \in NameInputs : EditName(n, value)
    \/ \E n \in 1..MaxUid, value \in ScoreInputs : EditScore(n, value)
    \/ \E n \in 1..MaxUid : DeleteRow(n)

SpecRegistry == Init /\ [][NextRegistry]_vars

(***************************************************************************)
(* exportToExcel                                                           *)
(***************************************************************************)

\* the order of the collation "zh-Hans-CN" on the characters of the names:
\* the order of their pinyin
PinyinRank ==
    ("he" :> 1) @@ ("li" :> 2) @@ ("liu" :> 3) @@ ("san" :> 4) @@
    ("si" :> 5) @@ ("wei" :> 6) @@ ("zhang" :> 7) @@ ("zhao" :> 8)

\* the first position at which two strings differ, 0 when one is a prefix of
\* the other
FirstDifference(a, b) ==
    Smallest({n \in 1..Min(Len(a), Len(b)) : a[n] # b[n]} \cup {Len(a) + Len(b) + 1})
        % (Len(a) + Len(b) + 1)

\* a.localeCompare(b, locale) for strings over characters ranked by `rank`:
\* negative, zero or positive
LocaleCompare(a, b, rank) ==
    IF FirstDifference(a, b) = 0 THEN Len(a) - Len(b)
    ELSE rank[a[FirstDifference(a, b)]] - rank[b[FirstDifference(a, b)]]

\* mutant: a score of 0 counts as no score
Exportable_Truthy(e) ==
    Trim(e.name) # << >> /\ e.score # << >> /\ e.score # <<0>>

\* .filter((e) => e.name.trim() && e.score !== '')
Exportable(e) == Trim(e.name) # << >> /\ e.score # << >>

\* .map((e) => ({ studentId: e.studentId.trim(), name: e.name.trim(),
\*                score: Number(e.score) }))
ExportRow(e) ==
    [studentId |-> Trim(e.studentId), name |-> Trim(e.name), score |-> e.score]

\* the comparator of .sort(): negative when a goes first
CompareRows(a, b) ==
    IF a.studentId # << >> /\ b.studentId # << >>
    THEN LocaleCompare(a.studentId, b.studentId, DigitValue)
    ELSE IF a.studentId # << >> THEN -1
    ELSE IF b.studentId # << >> THEN 1
    ELSE LocaleCompare(a.name, b.name, PinyinRank)

\* a row put into a sorted list behind the rows that do not go after it
InsertRow(sorted, row) ==
    SelectSeq(sorted, LAMBDA r : CompareRows(r, row) <= 0) \o <<row>>
        \o SelectSeq(sorted, LAMBDA r : CompareRows(r, row) > 0)

\* Array.prototype.sort, which is stable, over the first n rows
RECURSIVE SortRows(_, _)
SortRows(rows, n) ==
    IF n = 0 THEN << >> ELSE InsertRow(SortRows(rows, n - 1), rows[n])

\* the rows `clean` that exportToExcel writes under the header
CleanRows(rows) ==
    SortRows([n \in 1..Len(SelectSeq(rows, Exportable)) |->
                 ExportRow(SelectSeq(rows, Exportable)[n])],
             Len(SelectSeq(rows, Exportable)))

\* exportNow(): the button is disabled while the registry is empty
ExportNow ==
    /\ entries # << >>
    /\ sheet' = <<CleanRows(entries)>>
    /\ UNCHANGED <<sessionVars, fixedVars, registryVars, rosterVoiceOn, oracleVars>>

(***************************************************************************)
(* SpecExport: the export of a registry of edited rows                     *)
(***************************************************************************)

\* rows the registry holds after saves and edits, without their row ids
ExportEntries ==
    { Entry(<< >>, << >>, << >>, << >>),
      Entry(<< >>, Id2401, ZhangSan, <<95>>),
      Entry(<< >>, Id2409, <<" ">> \o HeWei, <<0>>),
      Entry(<< >>, << >>, LiSi, <<8>>),
      Entry(<< >>, << >>, HeWei \o <<" ">>, <<95>>),
      Entry(<< >>, << >>, ZhangSan, << >>),
      Entry(<< >>, << >>, <<" ">>, <<95>>) }

\* rows of the registry under export
MaxExported == 3

\* the row ids uid() gave them
WithRowIds(rows) == [n \in 1..Len(rows) |-> [rows[n] EXCEPT !.id = <<n>>]]

InitExport ==
    /\ rosterText = AppRosterText
    /\ roster = normalizeRoster(rosterText)
    /\ memo = {}
    /\ TranscriptIdle
    /\ NumeralIdle
    /\ CallIdle
    /\ PanelIdle
    /\ ReplyIdle
    /\ rosterVoiceOn = FALSE
    /\ OracleIdle
    /\ sheet = << >>
    /\ lastMerge = << >>
    /\ \E len \in 1..MaxExported :
           \E rows \in [1..len -> ExportEntries] :
               /\ entries = WithRowIds(rows)
               /\ nextUid = len + 1

NextExport == ExportNow

SpecExport == InitExport /\ [][NextExport]_vars

(***************************************************************************)
(* Properties of the oracle requests (Spec)                                *)
(***************************************************************************)

PendingMatches ==
    {n \in 1..Len(requests) : requests[n].kind = "match" /\ ~requests[n].settled}

IdentityKey(e) ==
    IF e.studentId # << >> THEN IdKey(e.studentId) ELSE NameKey(e.name)

\* C12: no two entries of the registry have the same identity key.
C12_IdentityKeysUnique ==
    \A n \in 1..Len(entries) : \A m \in 1..Len(entries) :
        IdentityKey(entries[n]) = IdentityKey(entries[m]) => n = m

\* the last merge, when the rows have not been rewritten since
mergedBefore == lastMerge[1].before

mergedPairs == lastMerge[1].pairs

mergedLocal == lastMerge[1].local

\* the pairs of the last merge that were not skipped, by position
KeptPairs ==
    {n \in 1..Len(mergedPairs) : ~SkipsPair(mergedPairs[n], mergedLocal)}

KeyOfPair(n) == MergeKeyOf(mergedPairs[n], mergedLocal)

PairKeys == {KeyOfPair(n) : n \in KeptPairs}

BeforeKeys == {EntryKey(mergedBefore[n]) : n \in 1..Len(mergedBefore)}

BeforeIds == {mergedBefore[n].id : n \in 1..Len(mergedBefore)}

LastPairOfKey(key) == mergedPairs[Largest({n \in KeptPairs : KeyOfPair(n) = key})]

RowsOfId(id) == {r \in 1..Len(entries) : entries[r].id = id}

NewRowsOfKey(key) ==
    {r \in 1..Len(entries) :
        entries[r].id \notin BeforeIds /\ EntryKey(entries[r]) = key}

\* C13: after a merge, an entry whose key is the key of a pair has kept its row
\* id and differs from what it was only in studentId, name and score, which are
\* the pair's; an entry whose key is no pair's key is as it was; a pair whose
\* key no entry had has made one entry with a row id no entry had.
C13_MergeInPlace ==
    lastMerge # << >> =>
        /\ \A n \in 1..Len(mergedBefore) :
               EntryKey(mergedBefore[n]) \in PairKeys =>
                   \E r \in RowsOfId(mergedBefore[n].id) :
                       entries[r] = Overwrite(mergedBefore[n],
                                        LastPairOfKey(EntryKey(mergedBefore[n])))
        /\ \A n \in 1..Len(mergedBefore) :
               EntryKey(mergedBefore[n]) \notin PairKeys =>
                   \E r \in 1..Len(entries) : entries[r] = mergedBefore[n]
        /\ \A key \in PairKeys \ BeforeKeys : Cardinality(NewRowsOfKey(key)) = 1

\* the position at which the key of a new row is first met among the pairs
FirstPairOfKey(key) == Smallest({n \in KeptPairs : KeyOfPair(n) = key})

\* C14: after a merge, the registry starts with the entries it had, each once
\* and in their order, and goes on with the entries made for the pairs, in the
\* order the pairs were processed.
C14_MergeKeepsRows ==
    lastMerge # << >> =>
        /\ Len(entries) >= Len(mergedBefore)
        /\ \A n \in 1..Len(mergedBefore) : entries[n].id = mergedBefore[n].id
        /\ \A r \in 1..Len(entries) : r > Len(mergedBefore) =>
               /\ entries[r].id \notin BeforeIds
               /\ EntryKey(entries[r]) \in PairKeys
        /\ \A r \in 1..Len(entries) : \A q \in 1..Len(entries) :
               Len(mergedBefore) < r /\ r < q =>
                   FirstPairOfKey(EntryKey(entries[r]))
                       < FirstPairOfKey(EntryKey(entries[q]))

\* C15: merging the pairs of the last merge once more gives the registry as it
\* is, and issues no row id.
C15_MergeIdempotent ==
    lastMerge # << >> =>
        /\ Merged(entries, nextUid, mergedPairs, mergedLocal) = entries
        /\ UidAfter(entries, nextUid, mergedPairs, mergedLocal) = nextUid

\* a merge has overwritten a row that was there and made a row
C15_Witness ==
    /\ lastMerge # << >>
    /\ \E n \in 1..Len(mergedBefore) : EntryKey(mergedBefore[n]) \in PairKeys
    /\ PairKeys \ BeforeKeys # {}
    /\ Len(entries) = Len(mergedBefore) + 1

\* C16: the score of every entry is empty or an integer from 0 to 100.
C16_ScoreRange ==
    \A n \in 1..Len(entries) :
        \/ entries[n].score = << >>
        \/ Len(entries[n].score) = 1 /\ entries[n].score[1] \in 0..100

(***************************************************************************)
(* Properties of the sessions (SpecSession)                                *)
(***************************************************************************)

\* C17: the grade recording and the roster voice session are never both live.
C17_OneLiveSession == ~(isRecording /\ rosterVoiceOn)

IsPrefix(a, b) == Len(a) <= Len(b) /\ SubSeq(b, 1, Len(a)) = a

\* finalText after a result event with the final fragments `appendedFinal`
Appended(appendedFinal) ==
    IF appendedFinal = << >> THEN finalText
    ELSE IF finalText = << >> THEN appendedFinal
    ELSE finalText \o <<" ">> \o appendedFinal

ResultEvent ==
    \E appendedFinal \in AppFinals \cup {<< >>}, interim \in AppInterims :
        Result(appendedFinal, interim)

\* a result event appends its final fragments, joined by a space, and replaces
\* the interim buffer
ResultAppends ==
    ResultEvent =>
        \E appendedFinal \in AppFinals \cup {<< >>} :
            /\ finalText' = Appended(appendedFinal)
            /\ interimText' \in AppInterims
            /\ IsPrefix(finalText, finalText')

\* a step that shortens or rewrites the final buffer is start or clear-all
OnlyStartAndClearReset ==
    ~IsPrefix(finalText, finalText') => (Start \/ ClearAll) /\ finalText' = << >>

\* an error of the engine ends the session and keeps the transcript
ErrorKeepsTranscript ==
    OnError => /\ ~isRecording'
               /\ finalText' = finalText
               /\ interimText' = interimText

\* C18: a result event appends its final fragments to the final buffer, joined
\* by a space, and replaces the interim buffer; what is parsed is
\* trim(final + " " + interim); no result, end or error event shortens the final
\* buffer; an error leaves the session idle with its transcript; only start and
\* clear-all reset the buffer.
C18_TranscriptBuffers ==
    /\ [](parsedLive = parsePairsFromText(Trim(finalText \o <<" ">> \o interimText),
                                          roster))
    /\ [][ResultAppends /\ OnlyStartAndClearReset /\ ErrorKeepsTranscript]_vars

\* the session ended on an engine event with two fragments in the final buffer
\* and an interim text
C18_Witness ==
    /\ ~isRecording
    /\ ~listening
    /\ \E first \in AppFinals, second \in AppFinals :
           finalText = first \o <<" ">> \o second
    /\ interimText # << >>

(***************************************************************************)
(* Properties of the export (SpecExport)                                   *)
(***************************************************************************)

\* the entries with a non-empty trimmed name and a non-empty score
ExportedEntries ==
    {n \in 1..Len(entries) : Trim(entries[n].name) # << >> /\ entries[n].score # << >>}

\* the fields of an entry as they are, and trimmed
FieldsOf(e) == [studentId |-> e.studentId, name |-> e.name, score |-> e.score]

TrimmedFieldsOf(e) ==
    [studentId |-> Trim(e.studentId), name |-> Trim(e.name), score |-> e.score]

RowsEqualTo(row) == {r \in 1..Len(sheet[1]) : sheet[1][r] = row}

\* rows with ids go by id, before the rows without, which go by name
InExportOrder(a, b) ==
    IF a.studentId # << >> /\ b.studentId # << >>
    THEN LocaleCompare(a.studentId, b.studentId, DigitValue) <= 0
    ELSE IF a.studentId # << >> THEN TRUE
    ELSE IF b.studentId # << >> THEN FALSE
    ELSE LocaleCompare(a.name, b.name, PinyinRank) <= 0

SheetSorted ==
    \A r \in 1..Len(sheet[1]) : \A q \in 1..Len(sheet[1]) :
        r < q => InExportOrder(sheet[1][r], sheet[1][q])

\* C19 as stated: the sheet holds one row per entry with a non-empty trimmed
\* name and a non-empty score, with the entry's studentId, name and score
\* unchanged, sorted by id and then by name.
C19_ExportUnchanged ==
    sheet # << >> =>
        /\ Len(sheet[1]) = Cardinality(ExportedEntries)
        /\ \A n \in ExportedEntries :
               Cardinality(RowsEqualTo(FieldsOf(entries[n])))
                   = Cardinality({m \in ExportedEntries :
                                     FieldsOf(entries[m]) = FieldsOf(entries[n])})
        /\ SheetSorted

\* C19, amended: the rows carry the trimmed studentId and name of their entries
\* and the score unchanged.
C19_ExportTrimmed ==
    sheet # << >> =>
        /\ Len(sheet[1]) = Cardinality(ExportedEntries)
        /\ \A n \in ExportedEntries :
               Cardinality(RowsEqualTo(TrimmedFieldsOf(entries[n])))
                   = Cardinality({m \in ExportedEntries :
                                     TrimmedFieldsOf(entries[m])
                                         = TrimmedFieldsOf(entries[n])})
        /\ SheetSorted

\* an export of three entries: one left out, one with the score 0, one whose
\* name was typed with a space, rows with and without an id
C19_Witness ==
    /\ sheet # << >>
    /\ Len(entries) = 3
    /\ Len(sheet[1]) = 2
    /\ \E r \in 1..2 : sheet[1][r].score = <<0>>
    /\ \E r \in 1..2 : sheet[1][r].studentId = << >>
    /\ \E n \in ExportedEntries : Trim(entries[n].name) # entries[n].name

(***************************************************************************)
(* SpecNumeral: chineseToNumber over score tokens                          *)
(***************************************************************************)

\* the longest token interpreted
MaxTokenLen == 3

NumeralChars == {"ling", "er", "wu", "jiu", "shi", "bai"}

ArabicChars == {"0", "1", "5", "9"}

\* characters chineseToNumber does not know
OtherChars == {"zhang", "fen"}

TokensOver(chars) ==
    UNION {[1..len -> chars] : len \in 1..MaxTokenLen}

NumeralTokens ==
    TokensOver(NumeralChars) \cup TokensOver(ArabicChars)
        \cup TokensOver(OtherChars) \cup {<< >>}

\* the component at rest over its roster
ComponentIdle ==
    /\ rosterText = AppRosterText
    /\ roster = normalizeRoster(rosterText)
    /\ memo = {}
    /\ TranscriptIdle
    /\ AppIdle

InitNumeral ==
    /\ token \in NumeralTokens
    /\ number = Pending
    /\ CallIdle
    /\ PanelIdle
    /\ ComponentIdle
    /\ ReplyIdle

\* the call chineseToNumber(token)
Interpret ==
    /\ number = Pending
    /\ number' = chineseToNumber(token)
    /\ UNCHANGED <<token, rosterVars, sessionVars, spoken, appVars, replyVars,
                   callVars, panelVars>>

NextNumeral == Interpret

SpecNumeral == InitNumeral /\ [][NextNumeral]_vars

(***************************************************************************)
(* Properties of chineseToNumber (SpecNumeral)                             *)
(***************************************************************************)

IsDigitChar(ch) == ch \in DOMAIN digit

IsMarker(ch) == ch \in {"shi", "bai"}

UnitOf(ch) == IF ch = "bai" THEN 100 ELSE 10

\* the value of the marker at position px: the unit times the digit right
\* before it, the unit alone when no digit is before it
MarkerValue(tok, px) ==
    IF px > 1 /\ IsDigitChar(tok[px - 1])
    THEN digit[tok[px - 1]] * UnitOf(tok[px])
    ELSE UnitOf(tok[px])

\* the sum of the marker values of the first px characters
RECURSIVE MarkersValue(_, _)
MarkersValue(tok, px) ==
    IF px = 0 THEN 0
    ELSE MarkersValue(tok, px - 1)
             + (IF IsMarker(tok[px]) THEN MarkerValue(tok, px) ELSE 0)

\* the standard value of a numeral: its markers, and its last digit as units
StandardValue(tok) ==
    MarkersValue(tok, Len(tok))
        + (IF IsDigitChar(tok[Len(tok)]) THEN digit[tok[Len(tok)]] ELSE 0)

\* a numeral of digits and markers with no two digits in a row
IsNumeral(tok) ==
    /\ tok # << >>
    /\ \A px \in 1..Len(tok) : IsDigitChar(tok[px]) \/ IsMarker(tok[px])
    /\ \A px \in 1..Len(tok) - 1 : ~(IsDigitChar(tok[px]) /\ IsDigitChar(tok[px + 1]))

\* C4: a token of 1-3 ASCII digits gives its decimal value, a numeral of digits
\* and the markers 十 and 百 gives its standard value, in which a marker
\* multiplies the digit before it and counts as 1 only when no digit is before
\* it, and a token with no digit and no marker gives null.
C4_ConventionalValue ==
    number # Pending =>
        /\ IsArabic(token) => number = Some(ParseInt(token))
        /\ IsNumeral(token) => number = Some(StandardValue(token))
        /\ (\A px \in 1..Len(token) : token[px] \in OtherChars) => number = None

(***************************************************************************)
(* SpecRoster: the roster textarea                                         *)
(***************************************************************************)

\* lines typed into the textarea before the model stops typing
MaxRosterLines == 3

\* "2401 张三", "张三", "2409 李四", "李四", "李四 2401", "2409"
RosterLineInputs ==
    { Id2401 \o <<" ">> \o ZhangSan,
      ZhangSan,
      Id2409 \o <<" ">> \o LiSi,
      LiSi,
      LiSi \o <<" ">> \o Id2401,
      Id2409 }

LineCount(text) == Cardinality({n \in 1..Len(text) : text[n] = "nl"}) + 1

InitRoster ==
    /\ rosterText = << >>
    /\ roster = normalizeRoster(rosterText)
    /\ memo = {}
    /\ TranscriptIdle
    /\ NumeralIdle
    /\ CallIdle
    /\ PanelIdle
    /\ AppIdle
    /\ ReplyIdle

\* onChange of the roster textarea, the user having typed one more line
TypeRosterLine(line) ==
    /\ rosterText # << >> => LineCount(rosterText) < MaxRosterLines
    /\ rosterText' = IF rosterText = << >> THEN line
                     ELSE rosterText \o <<"nl">> \o line
    /\ roster' = normalizeRoster(rosterText')
    /\ parsedLive' = parsePairsFromText(liveText, roster')
    /\ UNCHANGED <<memo, finalText, interimText, isRecording, listening, spoken,
                   numeralVars, callVars, panelVars, appVars, replyVars>>

NextRoster == \E line \in RosterLineInputs : TypeRosterLine(line)

SpecRoster == InitRoster /\ [][NextRoster]_vars

(***************************************************************************)
(* Properties of normalizeRoster (SpecRoster)                              *)
(***************************************************************************)

\* "2401 张三\n张三\n2409 李四"
AbsorbedLineText ==
    Id2401 \o <<" ">> \o ZhangSan \o <<"nl">> \o ZhangSan \o <<"nl">>
        \o Id2409 \o <<" ">> \o LiSi

AbsorbedLineRoster ==
    << [studentId |-> Id2401, name |-> ZhangSan],
       [studentId |-> Id2409, name |-> LiSi] >>

\* C7: the roster has at most one entry per non-empty studentId, at most one
\* id-less entry per name, and no id-less entry whose name an id-bearing entry
\* has; the lines "2401 张三", "张三", "2409 李四" give the two id-bearing entries.
C7_RosterUnique ==
    /\ \A px \in 1..Len(roster) : \A qx \in 1..Len(roster) :
           /\ roster[px].studentId # << >>
           /\ roster[px].studentId = roster[qx].studentId
           => px = qx
    /\ \A px \in 1..Len(roster) : \A qx \in 1..Len(roster) :
           /\ roster[px].studentId = << >>
           /\ roster[px].name = roster[qx].name
           => px = qx
    /\ rosterText = AbsorbedLineText => roster = AbsorbedLineRoster

\* the id-less line 张三 was absorbed by the line of 2401
C7_Witness ==
    /\ rosterText = AbsorbedLineText
    /\ Len(roster) = 2
    /\ roster[1].studentId = Id2401

(***************************************************************************)
(* SpecOracle: geminiParseHomeworkScores over the arrays of the reply      *)
(***************************************************************************)

\* items of the array before the model stops reading
MaxItems == 2

\* the items of the reply: with the id of a roster entry, with an id the roster
\* does not have, with no id; with a name of the roster or not; with an integer
\* score, one above 100, or none that is a number
OracleItems ==
    [studentId : {<< >>, Id2401, Id2409},
     name : {ZhangSan, LiSi, ZhaoLiu},
     score : {<<8>>, <<150>>, << >>}]

InitOracle ==
    /\ rosterText \in ParseRosterTexts
    /\ roster = normalizeRoster(rosterText)
    /\ memo = {}
    /\ TranscriptIdle
    /\ NumeralIdle
    /\ CallIdle
    /\ PanelIdle
    /\ AppIdle
    /\ ReplyIdle

\* one more item of the array goes through the loop of the validation
ReadItem(item) ==
    /\ Len(response) < MaxItems
    /\ response' = Append(response, item)
    /\ validated' = OraclePairs(roster, response')
    /\ UNCHANGED <<rosterVars, sessionVars, spoken, numeralVars, callVars, panelVars, appVars>>

NextOracle == \E item \in OracleItems : ReadItem(item)

SpecOracle == InitOracle /\ [][NextOracle]_vars

(***************************************************************************)
(* Properties of the validation (SpecOracle)                               *)
(***************************************************************************)

InRoster(studentId, name) ==
    \E px \in 1..Len(roster) :
        roster[px].studentId = studentId /\ roster[px].name = name

ReturnedNames == {normalizeStudentName(response[px].name) : px \in 1..Len(response)}

\* C8: every triple the validation returns has the studentId and the name of
\* one roster entry, and its name is a name the oracle returned: an item whose
\* name is not in the roster gives no triple, whatever its id and score.
C8_NamesFromRoster ==
    \A px \in 1..Len(validated) :
        /\ InRoster(validated[px].studentId, validated[px].name)
        /\ validated[px].name \in ReturnedNames

\* an item with the id of a roster entry and a name outside the roster was
\* dropped, an item of the roster was kept
C8_Witness ==
    /\ Len(response) = 2
    /\ response[1].studentId = Id2401
    /\ response[1].name = ZhaoLiu
    /\ response[1].score = <<8>>
    /\ Len(validated) = 1
    /\ validated[1].name = response[2].name

Accepted(item) == OracleItem(roster, item) # << >>

\* C9: an item is accepted only if its studentId is the id of a roster entry
\* with its name, or that entry has no id and the item's studentId is empty.
C9_IdsAligned ==
    \A px \in 1..Len(response) :
        Accepted(response[px]) =>
            InRoster(normalizeStudentId(response[px].studentId),
                     normalizeStudentName(response[px].name))

(***************************************************************************)
(* Properties of the oracle path of stopAndSave (Spec)                     *)
(***************************************************************************)

\* the match request n settles in this step
SettlesAt(n) ==
    /\ n \in 1..Len(requests)
    /\ requests[n].kind = "match"
    /\ ~requests[n].settled
    /\ requests'[n].settled

\* the call threw, or the validation kept no row of the reply
NoUsableRows ==
    /\ lastMerge' # << >>
    /\ lastMerge'[1].local \/ lastMerge'[1].pairs = << >>

\* C10: when the oracle call of a save ends in a transport error, a non-2xx
\* status, malformed JSON or a reply of which the validation keeps no row, the
\* local extraction of the transcript is merged into the registry.
C10_FallbackMerged ==
    [][\A n \in 1..MaxRequests :
           SettlesAt(n) /\ NoUsableRows =>
               entries' = Merged(entries, nextUid, requests[n].parsedLive, TRUE)]_vars

\* the part of C10 the catch block gives: a call that threw is followed by the
\* merge of the local extraction
ThrownFallbackMerged ==
    [][\A n \in 1..MaxRequests :
           SettlesAt(n) /\ lastMerge' # << >> /\ lastMerge'[1].local =>
               entries' = Merged(entries, nextUid, requests[n].parsedLive, TRUE)]_vars

(***************************************************************************)
(* Properties of the lookup by name (SpecParse)                            *)
(***************************************************************************)

NamedInRoster(name) == {px \in 1..Len(roster) : roster[px].name = name}

\* C28: a pair the name lookup produced carries a roster studentId with
\* matchType exact only when exactly one roster entry has its name.
C28_NameLookupUnambiguous ==
    \A px \in 1..Len(parsedLive) :
        (/\ parsedLive[px].rawStudentId = << >>
         /\ parsedLive[px].matchType = "exact"
         /\ parsedLive[px].studentId # << >>) =>
            Cardinality(NamedInRoster(parsedLive[px].name)) = 1

(***************************************************************************)
(* Properties of cancellation and of clearAll (Spec)                       *)
(***************************************************************************)

\* C25: the settling of an aborted match request changes no entry: neither the
\* oracle's pairs nor the local extraction are merged because of it.
C25_CancelledLeavesRegistry ==
    [][\A n \in 1..MaxRequests :
           SettlesAt(n) /\ requests[n].aborted => entries' = entries]_vars

\* C26: the registry emptied by clearAll is not filled by the settling of a
\* match request that was pending when clearAll ran.
C26_ClearAllFinal ==
    [][\A n \in 1..MaxRequests :
           SettlesAt(n) /\ requests[n].cleared /\ entries = << >> =>
               entries' = << >>]_vars

\* request n, pending and not aborted, is aborted in this step
AbortedAt(n) ==
    /\ n \in 1..Len(requests)
    /\ ~requests[n].aborted
    /\ requests'[n].aborted

\* a request of that kind is issued in this step
IssuedAt(kind) ==
    /\ Len(requests') = Len(requests) + 1
    /\ requests'[Len(requests')].kind = kind

\* C27: a pending match request is aborted only by a stopAndSave that issues
\* a match request, never by runGeminiRoster or cancelGemini; a pending roster
\* extraction is never aborted by a stopAndSave.
C27_IndependentScopes ==
    [][\A n \in 1..MaxRequests :
           AbortedAt(n) =>
               /\ requests[n].kind = "match" => IssuedAt("match")
               /\ requests[n].kind = "roster" => ~IssuedAt("match")]_vars

(***************************************************************************)
(* SpecInFlight: the table is edited while a match request is pending      *)
(***************************************************************************)

NextInFlight ==
    \/ Start
    \/ \E appendedFinal \in AppFinals : Result(appendedFinal, << >>)
    \/ StopAndSave(TRUE)
    \/ \E n \in 1..MaxRequests, parsed \in AppReplies : MatchReturns(n, parsed)
    \/ \E n \in 1..MaxRequests, failure \in OracleFailures : MatchThrows(n, failure)
    \/ AddEmptyRow
    \/ \E n \in 1..MaxUid, value \in NameInputs : EditName(n, value)
    \/ \E n \in 1..MaxUid, value \in ScoreInputs : EditScore(n, value)
    \/ \E n \in 1..MaxUid : DeleteRow(n)

SpecInFlight == Init /\ [][NextInFlight]_vars

\* the keys of the pairs merged in this step
KeysMerged ==
    {MergeKeyOf(lastMerge'[1].pairs[px], lastMerge'[1].local) :
        px \in {qx \in 1..Len(lastMerge'[1].pairs) :
                   ~SkipsPair(lastMerge'[1].pairs[qx], lastMerge'[1].local)}}

\* the row is still in the registry after this step, as it was unless a pair of
\* its key was merged
RowSurvives(row) ==
    \E qx \in 1..Len(entries') :
        /\ entries'[qx].id = row.id
        /\ EntryKey(row) \notin KeysMerged => entries'[qx] = row

\* a row with a row id issued before this step was in the registry before it
RowWasThere(row) ==
    row.id[1] < nextUid => \E px \in 1..Len(entries) : entries[px].id = row.id

\* C21: the merge of a settling request works on the registry as it is at that
\* time: every row of it, edited or added while the request was pending, is
\* kept, and no row deleted meanwhile comes back.
C21_MergeOnCurrentRegistry ==
    [][\A n \in 1..MaxRequests :
           SettlesAt(n) =>
               /\ \A px \in 1..Len(entries) : RowSurvives(entries[px])
               /\ \A qx \in 1..Len(entries') : RowWasThere(entries'[qx])]_vars

(***************************************************************************)
(* SpecNormalize: normalizeTranscript over short texts                     *)
(***************************************************************************)

\* length of the texts normalized
MaxNormLen == 3

\* the characters of the texts: the fillers that contain or are contained in
\* another filler, a name character and a space
NormalizeChars == {"fen", "shu", "de", "le", "zhang", " "}

NormalizeTexts == UNION {[1..n -> NormalizeChars] : n \in 0..MaxNormLen}

InitNormalize ==
    /\ argument \in NormalizeTexts
    /\ returned = << >>
    /\ NumeralIdle
    /\ PanelIdle
    /\ ComponentIdle
    /\ ReplyIdle

\* the call normalizeTranscript(argument)
Normalize ==
    /\ returned = << >>
    /\ returned' = <<normalizeTranscript(argument)>>
    /\ UNCHANGED <<argument, rosterVars, sessionVars, spoken, numeralVars,
                   appVars, replyVars, panelVars>>

NextNormalize == Normalize

SpecNormalize == InitNormalize /\ [][NextNormalize]_vars

(***************************************************************************)
(* Properties of normalizeTranscript (SpecNormalize)                       *)
(***************************************************************************)

\* the fillers made of the characters of the texts; no other word of the noise
\* list occurs in a text or in what a removal leaves of it
TextFillers == {noise[x] : x \in {y \in 1..Len(noise) :
                                     \A p \in 1..Len(noise[y]) :
                                         noise[y][p] \in NormalizeChars}}

\* the orders in which these fillers can be removed
FillerOrders ==
    {order \in [1..Cardinality(TextFillers) -> TextFillers] :
        \A px, qx \in DOMAIN order : order[px] = order[qx] => px = qx}

\* the filler w occurs inside the filler v
Inside(w, v) == w # v /\ \E p \in 1..Len(v) : OccursAt(v, w, p)

\* the orders that remove a filler before the fillers inside it, as the noise
\* list does
LongestFirstOrders ==
    {order \in FillerOrders :
        \A px, qx \in DOMAIN order :
            Inside(order[px], order[qx]) => qx < px}

RECURSIVE RemoveInOrder(_, _)
RemoveInOrder(out, order) ==
    IF order = << >> THEN out
    ELSE RemoveInOrder(SplitJoin(out, Head(order), <<" ">>), Tail(order))

NormalizedInOrder(text, order) ==
    Trim(CollapseWhitespace(RemoveInOrder(text, order)))

HasFiller(out) ==
    \E x \in 1..Len(noise) : \E p \in 1..Len(out) : OccursAt(out, noise[x], p)

\* no filler, no whitespace at the ends, no two whitespace characters in a row
Clean(out) ==
    /\ ~HasFiller(out)
    /\ out # << >> => out[1] \notin Whitespace /\ out[Len(out)] \notin Whitespace
    /\ \A p \in 1..Len(out) - 1 :
           ~(out[p] \in Whitespace /\ out[p + 1] \in Whitespace)

\* C23 as stated: removing the fillers in any order gives the output of
\* normalizeTranscript, and the output is clean.
C23_AnyOrder ==
    returned # << >> =>
        /\ \A order \in FillerOrders :
               NormalizedInOrder(argument, order) = returned[1]
        /\ Clean(returned[1])

\* C23, amended: removing the fillers in any order that takes a filler before
\* the fillers inside it gives the output of normalizeTranscript, and the
\* output has no filler, no whitespace at its ends and no two whitespace
\* characters in a row.
C23_LongestFirstOrder ==
    returned # << >> =>
        /\ \A order \in LongestFirstOrders :
               NormalizedInOrder(argument, order) = returned[1]
        /\ Clean(returned[1])

\* a text with a filler that has another filler inside it, normalized
C23_Witness ==
    /\ returned # << >>
    /\ \E p \in 1..Len(argument) : OccursAt(argument, <<"fen", "shu">>, p)
    /\ Len(argument) = MaxNormLen
    /\ argument[MaxNormLen] = " "

(***************************************************************************)
(* SpecName: normalizeStudentName over short strings                       *)
(***************************************************************************)

\* length of the strings normalized
MaxNameLen == 4

\* CJK characters, a Latin letter, a digit and a space
NameChars == {"zhang", "san", "li", "a", "1", " "}

NameTexts == UNION {[1..n -> NameChars] : n \in 0..MaxNameLen}

InitName ==
    /\ argument \in NameTexts
    /\ returned = << >>
    /\ NumeralIdle
    /\ PanelIdle
    /\ ComponentIdle
    /\ ReplyIdle

\* the call normalizeStudentName(argument)
NormalizeName ==
    /\ returned = << >>
    /\ returned' = <<normalizeStudentName(argument)>>
    /\ UNCHANGED <<argument, rosterVars, sessionVars, spoken, numeralVars,
                   appVars, replyVars, panelVars>>

NextName == NormalizeName

SpecName == InitName /\ [][NextName]_vars

(***************************************************************************)
(* Properties of normalizeStudentName (SpecName)                           *)
(***************************************************************************)

CjkAt(s) == {p \in 1..Len(s) : s[p] \in CJK}

\* s[p..q] is a run of CJK characters that cannot be extended
IsCjkRun(s, p, q) ==
    /\ 1 <= p /\ p <= q /\ q <= Len(s)
    /\ \A k \in p..q : s[k] \in CJK
    /\ p = 1 \/ s[p - 1] \notin CJK
    /\ q = Len(s) \/ s[q + 1] \notin CJK

\* out is a longest run of CJK characters of s
IsLongestCjkRun(out, s) ==
    \E p, q \in 1..Len(s) :
        /\ IsCjkRun(s, p, q)
        /\ out = SubSeq(s, p, q)
        /\ \A p2, q2 \in 1..Len(s) : IsCjkRun(s, p2, q2) => q2 - p2 <= q - p

\* out is the CJK characters of s, all of them, in their order
IsCjkOf(out, s) ==
    /\ Len(out) = Cardinality(CjkAt(s))
    /\ \A k \in 1..Len(out) : out[k] = s[KeptAt(CjkAt(s), k)]

\* C24 as stated: the result is the longest run of CJK characters of the
\* cleaned string when it has a CJK character, and the cleaned string otherwise.
C24_LongestRun ==
    returned # << >> =>
        IF CjkAt(CleanName(argument)) # {}
        THEN IsLongestCjkRun(returned[1], CleanName(argument))
        ELSE returned[1] = CleanName(argument)

\* C24, amended: the result is all the CJK characters of the cleaned string in
\* their order, the runs joined, when it has a CJK character, and the cleaned
\* string otherwise.
C24_AllCjkJoined ==
    returned # << >> =>
        IF CjkAt(CleanName(argument)) # {}
        THEN IsCjkOf(returned[1], CleanName(argument))
        ELSE returned[1] = CleanName(argument)

\* two runs of CJK characters with a letter between them, normalized
C24_Witness ==
    /\ returned # << >>
    /\ argument = <<"zhang", "san", "a", "li">>
    /\ returned[1] = <<"zhang", "san", "li">>

(***************************************************************************)
(* bestNameMatch of the fuzzy variant (src/unnamed/part_002)               *)
(***************************************************************************)

Min3(a, b, c) == Min(a, Min(b, c))

\* dp[i][j] of levenshtein(a, b)
RECURSIVE Dp(_, _, _, _)
Dp(aa, bb, i, j) ==
    IF j = 0 THEN i
    ELSE IF i = 0 THEN j
    ELSE Min3(Dp(aa, bb, i - 1, j) + 1,
              Dp(aa, bb, i, j - 1) + 1,
              Dp(aa, bb, i - 1, j - 1) + (IF aa[i] = bb[j] THEN 0 ELSE 1))

levenshtein(a, b) == Dp(a, b, Len(a), Len(b))

\* rawName.replace(/\s+/g, '').replace(/同学|同學/g, '')
FuzzyCleaned(rawName) ==
    SplitJoin(SplitJoin(Filter(rawName, {rawName[p] : p \in 1..Len(rawName)}
                                            \ Whitespace),
                        <<"tong", "xue">>, << >>),
              <<"tong", "xue_t">>, << >>)

\* 1 - dist / denom as the fraction <<denom - dist, denom>>; the doubles of the
\* source order as these fractions do for names of up to 8 characters
Similarity(cleaned, candidate) ==
    <<Max(Max(Len(cleaned), Len(candidate)), 1) - levenshtein(cleaned, candidate),
      Max(Max(Len(cleaned), Len(candidate)), 1)>>

Greater(sim, confidence) == sim[1] * confidence[2] > confidence[1] * sim[2]

\* mutant: the threshold is 0.5
Accepts_Half(confidence) == 2 * confidence[1] >= confidence[2]

\* best.confidence >= 0.6
Accepts(confidence) == 5 * confidence[1] >= 3 * confidence[2]

\* the loop over the candidates from the k-th on
RECURSIVE BestFrom(_, _, _, _)
BestFrom(cleaned, names, k, best) ==
    IF k > Len(names) THEN best
    ELSE BestFrom(cleaned, names, k + 1,
                  IF Greater(Similarity(cleaned, names[k]), best.confidence)
                  THEN [name |-> names[k],
                        confidence |-> Similarity(cleaned, names[k])]
                  ELSE best)

FuzzyOrRaw(cleaned, best) ==
    IF Accepts(best.confidence)
    THEN [name |-> best.name, matchType |-> "fuzzy", confidence |-> best.confidence]
    ELSE [name |-> cleaned, matchType |-> "raw", confidence |-> best.confidence]

bestNameMatch(rawName, names) ==
    IF FuzzyCleaned(rawName) = << >>
    THEN [name |-> rawName, matchType |-> "raw", confidence |-> <<0, 1>>]
    ELSE IF \E k \in 1..Len(names) : names[k] = FuzzyCleaned(rawName)
    THEN [name |-> FuzzyCleaned(rawName), matchType |-> "exact",
          confidence |-> <<1, 1>>]
    ELSE FuzzyOrRaw(FuzzyCleaned(rawName),
                    BestFrom(FuzzyCleaned(rawName), names, 1,
                             [name |-> FuzzyCleaned(rawName),
                              confidence |-> <<0, 1>>]))

(***************************************************************************)
(* SpecFuzzy: bestNameMatch over short names and rosters                   *)
(***************************************************************************)

\* length of the spoken names
MaxSpokenLen == 3

SpokenChars == {"zhang", "san", "li", "si"}

\* the spoken names: strings of name characters, and names with a space or an
\* honorific in them
SpokenNames ==
    UNION {[1..n -> SpokenChars] : n \in 0..MaxSpokenLen}
        \cup {<<"zhang", " ", "san">>, <<"tong", "xue">>,
              <<"li", "si", "tong", "xue">>, <<" ">>}

\* the rosters of the variant: the trimmed lines of the roster text
FuzzyRosters ==
    { << >>,
      <<ZhangSan>>,
      <<ZhangSan, <<"li", "si", "san">>>>,
      <<<<"li", "si", "san">>, <<"li", "si", "li">>, LiSi>> }

InitFuzzy ==
    /\ argument \in [rawName : SpokenNames, roster : FuzzyRosters]
    /\ returned = << >>
    /\ NumeralIdle
    /\ PanelIdle
    /\ ComponentIdle
    /\ ReplyIdle

\* the call bestNameMatch(rawName, roster)
MatchName ==
    /\ returned = << >>
    /\ returned' = <<bestNameMatch(argument.rawName, argument.roster)>>
    /\ UNCHANGED <<argument, rosterVars, sessionVars, spoken, numeralVars,
                   appVars, replyVars, panelVars>>

NextFuzzy == MatchName

SpecFuzzy == InitFuzzy /\ [][NextFuzzy]_vars

(***************************************************************************)
(* Properties of bestNameMatch (SpecFuzzy)                                 *)
(***************************************************************************)

spokenName == FuzzyCleaned(argument.rawName)

Candidates == {argument.roster[k] : k \in 1..Len(argument.roster)}

\* 1 - levenshtein(a, b) / max(len(a), len(b)) is at least x / 10
SimilarAtLeast(a, b, x) ==
    10 * (Max(Len(a), Len(b)) - levenshtein(a, b)) >= x * Max(Len(a), Len(b))

\* no candidate is more similar to the spoken name than c is
MostSimilar(c) ==
    \A d \in Candidates :
        (Max(Len(spokenName), Len(d)) - levenshtein(spokenName, d))
                * Max(Len(spokenName), Len(c))
            <= (Max(Len(spokenName), Len(c)) - levenshtein(spokenName, c))
                * Max(Len(spokenName), Len(d))

\* C22: a spoken name that is in the roster is returned as exact with
\* confidence 1; otherwise a roster name of the highest similarity is returned
\* as fuzzy if and only if that similarity is at least 0.6, and else the
\* cleaned spoken name is kept as raw.
C22_FuzzyThreshold ==
    (returned # << >> /\ spokenName # << >>) =>
        IF spokenName \in Candidates
        THEN /\ returned[1].matchType = "exact"
             /\ returned[1].name = spokenName
             /\ returned[1].confidence = <<1, 1>>
        ELSE IF \E c \in Candidates : SimilarAtLeast(spokenName, c, 6)
        THEN /\ returned[1].matchType = "fuzzy"
             /\ returned[1].name \in Candidates
             /\ MostSimilar(returned[1].name)
        ELSE /\ returned[1].matchType = "raw"
             /\ returned[1].name = spokenName

\* a name of three characters one character away from a roster name was matched
\* to it, the roster also holding a name of two characters
C22_Witness ==
    /\ returned # << >>
    /\ argument.rawName = <<"li", "si", "si">>
    /\ Len(argument.roster) = 3
    /\ returned[1].matchType = "fuzzy"
    /\ returned[1].name = <<"li", "si", "san">>

\* a name of two characters one character away from a roster name stayed raw
RawWitness ==
    /\ returned # << >>
    /\ argument.rawName = <<"zhang", "si">>
    /\ argument.roster = <<ZhangSan>>
    /\ returned[1].matchType = "raw"
    /\ returned[1].name = <<"zhang", "si">>

(***************************************************************************)
(* applyGeminiRoster                                                       *)
(***************************************************************************)

\* one line of rosterItemsToText: '' for an item without a name
RosterItemLine(it) ==
    IF normalizeStudentName(it.name) = << >> THEN << >>
    ELSE IF normalizeStudentId(it.studentId) # << >>
    THEN normalizeStudentId(it.studentId) \o <<"tab">>
             \o normalizeStudentName(it.name)
    ELSE normalizeStudentName(it.name)

\* lines.join('\n')
RECURSIVE JoinLines(_)
JoinLines(lines) ==
    IF lines = << >> THEN << >>
    ELSE IF Len(lines) = 1 THEN lines[1]
    ELSE lines[1] \o <<"nl">> \o JoinLines(Tail(lines))

\* items.map(...).filter(Boolean).join('\n')
rosterItemsToText(items) ==
    JoinLines(SelectSeq([p \in 1..Len(items) |-> RosterItemLine(items[p])],
                        LAMBDA line : line # << >>))

\* uniqueRosterItems: the dedupe of normalizeRoster over the items with a name
uniqueRosterItems(items) ==
    DedupeRoster(SelectSeq(items, LAMBDA it : normalizeStudentName(it.name) # << >>))

\* geminiPreview.map((name) => ({ studentId: '', name }))
Incoming(preview) == [p \in 1..Len(preview) |-> [studentId |-> << >>, name |-> preview[p]]]

\* `next` of applyGeminiRoster
NextRosterItems(mode, current, preview) ==
    IF mode = "replace" THEN uniqueRosterItems(Incoming(preview))
    ELSE uniqueRosterItems(current \o Incoming(preview))

\* the name lists geminiExtractRosterNames returns: uniqueNames has normalized
\* them and dropped the empty and the repeated ones
Previews ==
    { <<ZhaoLiu>>, <<LiSi, ZhaoLiu>>, <<ZhangSan, <<"zhao">>>>, <<<<"a", "a">>>> }

\* runGeminiRoster() after the await, the call having returned names
RosterReturns(n, names) ==
    /\ n \in 1..Len(requests)
    /\ requests[n].kind = "roster" /\ ~requests[n].settled /\ ~requests[n].aborted
    /\ geminiPreview' = names
    /\ Settled(n, TRUE)
    /\ geminiLoading' = FALSE
    /\ UNCHANGED <<sessionVars, rosterVars, spoken, numeralVars, callVars,
                   loadingVars, replyVars, registryVars, rosterVoiceOn,
                   geminiMatchLoading, geminiAbortRef, sheet>>

\* applyGeminiRoster(): the button is disabled while geminiLoading and with an
\* empty preview.  argument and returned keep the call: the mode, the preview
\* and the roster it read, and the `next` whose length the status reports.
ApplyGeminiRoster(mode) ==
    /\ ~geminiLoading
    /\ geminiPreview # << >>
    /\ argument' = <<[mode |-> mode, preview |-> geminiPreview,
                      current |-> normalizeRoster(rosterText)]>>
    /\ returned' = <<NextRosterItems(mode, normalizeRoster(rosterText), geminiPreview)>>
    /\ rosterText' = rosterItemsToText(returned'[1])
    /\ roster' = normalizeRoster(rosterText')
    /\ parsedLive' = parsePairsFromText(liveText, roster')
    /\ UNCHANGED <<memo, finalText, interimText, isRecording, listening, spoken,
                   numeralVars, panelVars, replyVars, appVars>>

InitApply ==
    /\ rosterText \in ParseRosterTexts
    /\ roster = normalizeRoster(rosterText)
    /\ memo = {}
    /\ TranscriptIdle
    /\ NumeralIdle
    /\ CallIdle
    /\ PanelIdle
    /\ AppIdle
    /\ ReplyIdle

NextApply ==
    \/ RunGeminiRoster
    \/ \E n \in 1..MaxRequests, names \in Previews : RosterReturns(n, names)
    \/ \E n \in 1..MaxRequests : RosterSettles(n)
    \/ CancelGemini
    \/ \E mode \in {"append", "replace"} : ApplyGeminiRoster(mode)

SpecApply == InitApply /\ [][NextApply]_vars

(***************************************************************************)
(* Properties of applyGeminiRoster (SpecApply)                             *)
(***************************************************************************)

InItems(items, it) == \E p \in 1..Len(items) : items[p] = it

\* C30: after applyGeminiRoster every name of the preview is the name of an
\* entry of the roster parsed back from the new text, that roster has the
\* entries and the size of the `next` that was reported, and in append mode
\* every entry of the roster before is still in it.
C30_AppliedRosterRoundTrip ==
    (returned # << >> /\ rosterText = rosterItemsToText(returned[1])) =>
        /\ \A p \in 1..Len(argument[1].preview) :
               \E q \in 1..Len(roster) : roster[q].name = argument[1].preview[p]
        /\ roster = returned[1]
        /\ Len(roster) = Len(returned[1])
        /\ argument[1].mode = "append" =>
               \A p \in 1..Len(argument[1].current) :
                   InItems(roster, argument[1].current[p])

(***************************************************************************)
(* SpecLoading: refreshGeminiModels and runRosterAiExtractNow              *)
(***************************************************************************)

\* model-list and roster-AI requests made before the model stops issuing
MaxFetches == 3

\* the names geminiExtractRosterNamesWithExclusions returns
AiNames == {<< >>, <<ZhaoLiu>>}

Fetch(kind) == [kind |-> kind, aborted |-> FALSE, settled |-> FALSE]

FetchSettled(n) == fetches' = [fetches EXCEPT ![n].settled = TRUE]

\* refreshGeminiModels() up to the await, from the button or from the effect
\* that runs when the key changes
RefreshGeminiModels ==
    /\ Len(fetches) < MaxFetches
    /\ fetches' = Append(Aborted(fetches, geminiModelsAbortRef), Fetch("models"))
    /\ geminiModelsAbortRef' = Len(fetches) + 1
    /\ geminiModelsLoading' = TRUE
    /\ UNCHANGED <<rosterVars, sessionVars, spoken, numeralVars, callVars,
                   geminiPreview, rosterAiLoading, rosterAiAbortRef, replyVars,
                   appVars>>

\* refreshGeminiModels() after the await: the list or a status, or nothing
\* for an AbortError; then the finally
ModelsSettles(n) ==
    /\ n \in 1..Len(fetches)
    /\ fetches[n].kind = "models" /\ ~fetches[n].settled
    /\ FetchSettled(n)
    /\ geminiModelsLoading' = FALSE
    /\ UNCHANGED <<rosterVars, sessionVars, spoken, numeralVars, callVars,
                   geminiPreview, rosterAiLoading, geminiModelsAbortRef,
                   rosterAiAbortRef, replyVars, appVars>>

\* runRosterAiExtractNow(text) up to the await, the text being a new one
RunRosterAiExtractNow ==
    /\ Len(fetches) < MaxFetches
    /\ fetches' = Append(Aborted(fetches, rosterAiAbortRef), Fetch("rosterAi"))
    /\ rosterAiAbortRef' = Len(fetches) + 1
    /\ rosterAiLoading' = TRUE
    /\ UNCHANGED <<rosterVars, sessionVars, spoken, numeralVars, callVars,
                   geminiPreview, geminiModelsLoading, geminiModelsAbortRef,
                   replyVars, appVars>>

\* the roster text after setRosterText of the auto-apply
AutoApplied(prev, names) ==
    rosterItemsToText(uniqueRosterItems(normalizeRoster(prev) \o Incoming(names)))

\* runRosterAiExtractNow() after the await, the call having returned names
RosterAiReturns(n, names, autoApply) ==
    /\ n \in 1..Len(fetches)
    /\ fetches[n].kind = "rosterAi" /\ ~fetches[n].settled /\ ~fetches[n].aborted
    /\ FetchSettled(n)
    /\ rosterAiLoading' = FALSE
    /\ rosterText' = IF names # << >> /\ autoApply
                     THEN AutoApplied(rosterText, names) ELSE rosterText
    /\ roster' = normalizeRoster(rosterText')
    /\ parsedLive' = parsePairsFromText(liveText, roster')
    /\ UNCHANGED <<memo, finalText, interimText, isRecording, listening, spoken,
                   numeralVars, callVars, geminiPreview, geminiModelsLoading,
                   geminiModelsAbortRef, rosterAiAbortRef, replyVars, appVars>>

\* runRosterAiExtractNow() after the await, the call having thrown, an
\* AbortError or another error
RosterAiThrows(n) ==
    /\ n \in 1..Len(fetches)
    /\ fetches[n].kind = "rosterAi" /\ ~fetches[n].settled
    /\ FetchSettled(n)
    /\ rosterAiLoading' = FALSE
    /\ UNCHANGED <<rosterVars, sessionVars, spoken, numeralVars, callVars,
                   geminiPreview, geminiModelsLoading, geminiModelsAbortRef,
                   rosterAiAbortRef, replyVars, appVars>>

NextLoading ==
    \/ RefreshGeminiModels
    \/ \E n \in 1..MaxFetches : ModelsSettles(n)
    \/ RunRosterAiExtractNow
    \/ \E n \in 1..MaxFetches, names \in AiNames, autoApply \in BOOLEAN :
           RosterAiReturns(n, names, autoApply)
    \/ \E n \in 1..MaxFetches : RosterAiThrows(n)

SpecLoading == InitApply /\ [][NextLoading]_vars

(***************************************************************************)
(* Properties of the loading flags (SpecLoading)                           *)
(***************************************************************************)

InFlight(kind) ==
    \E n \in 1..Len(fetches) :
        /\ fetches[n].kind = kind
        /\ ~fetches[n].settled
        /\ ~fetches[n].aborted

\* C29: while a model-list request is issued and neither settled nor aborted,
\* geminiModelsLoading is true; while a roster-AI request is, rosterAiLoading
\* is true.
C29_LoadingTracksRequests ==
    /\ InFlight("models") => geminiModelsLoading
    /\ InFlight("rosterAi") => rosterAiLoading

====
